---- MODULE Spec2Model ----
(***************************************************************************)
(* EasyBake (src/__init__.py): shader-graph classification, the scoped     *)
(* probe rewrites (the four @contextmanager functions) and the bake sweep  *)
(* of MBNL_OT_bake.execute.                                                *)
(*                                                                         *)
(* A node tree is a pair (nodes, links): nodes maps a node name to its     *)
(* record, links is the tree's link list in creation order (Blender keeps  *)
(* nt.links as a list; socket.links lists the tree's links on that socket  *)
(* in that order).                                                         *)
(***************************************************************************)
EXTENDS Integers, Sequences, FiniteSets, TLC

VARIABLES
    nodes,      \* nt.nodes: name -> [bl_idname, label, outputs, image]
    links,      \* nt.links: sequence of [fn, fs, tn, ts]
    consts,     \* default_value of the Principled BSDF inputs
    probes,     \* stack of the probe scopes that are open (innermost last)
    closed,     \* the probe scope that exited last
    analysis,   \* results of the analyze_material calls made so far
    sweep       \* state of MBNL_OT_bake.execute

vars == <<nodes, links, consts, probes, closed, analysis, sweep>>

-----------------------------------------------------------------------------
(* Node kinds (bl_idname) and sockets *)

OutputMaterial == "ShaderNodeOutputMaterial"
BsdfPrincipled == "ShaderNodeBsdfPrincipled"
BsdfDiffuse    == "ShaderNodeBsdfDiffuse"
Emission       == "ShaderNodeEmission"
MixShader      == "ShaderNodeMixShader"
NodeGroup      == "ShaderNodeNodeGroup"
TexImage       == "ShaderNodeTexImage"
RGBNode        == "ShaderNodeRGB"

\* src/__init__.py:376-383: shader nodes other than the Principled BSDF
shader_types == {BsdfDiffuse, Emission, MixShader, NodeGroup}

\* src/__init__.py:416-422: the list of 'custom' shaders without Mix/Add
simple_shader_types == {BsdfDiffuse, Emission, NodeGroup}

\* src/__init__.py:599-605: nodes that 'usually have BSDF output'
bsdf_output_types == {BsdfDiffuse}

mix_types == {MixShader}

\* src/__init__.py:575
shader_output_names == <<"Shader", "BSDF", "Surface", "Color", "Output">>

TempRGBLabel == "Temp RGB for Custom Shader"

\* Inputs of the Principled BSDF that the model carries
PrincipledInputs == {"Base Color", "Metallic", "Roughness", "Specular"}

Node(kind, label, outs, img) ==
    [bl_idname |-> kind, label |-> label, outputs |-> outs, image |-> img]

Link(fn, fs, tn, ts) == [fn |-> fn, fs |-> fs, tn |-> tn, ts |-> ts]

SeqToSet(s) == {s[i] : i \in DOMAIN s}

-----------------------------------------------------------------------------
(* bpy node-tree primitives *)

\* socket.links of an output socket, in tree order
OutLinks(L, n, s) == SelectSeq(L, LAMBDA l : l.fn = n /\ l.fs = s)

\* socket.links of an input socket
InLinks(L, n, s) == SelectSeq(L, LAMBDA l : l.tn = n /\ l.ts = s)

is_linked(L, n, s) == InLinks(L, n, s) # <<>>

\* nt.links.remove(link)
links_remove(L, l) == SelectSeq(L, LAMBDA x : x # l)

\* nt.links.new(from, to): an input socket holds one link, the new link
\* replaces the one it held and goes to the end of the list
links_new(L, fn, fs, tn, ts) ==
    Append(SelectSeq(L, LAMBDA x : ~(x.tn = tn /\ x.ts = ts)), Link(fn, fs, tn, ts))

\* nt.nodes.new(type): Blender names the node after its type, made unique
NewName(N, base) ==
    IF base \notin DOMAIN N THEN base
    ELSE IF (base \o ".001") \notin DOMAIN N THEN base \o ".001"
    ELSE base \o ".002"

nodes_new(N, name, rec) ==
    [n \in DOMAIN N \cup {name} |-> IF n = name THEN rec ELSE N[n]]

\* nt.nodes.remove(node): the node goes, and every link on its sockets
nodes_remove_N(N, name) == [n \in DOMAIN N \ {name} |-> N[n]]
nodes_remove_L(L, name) == SelectSeq(L, LAMBDA x : x.fn # name /\ x.tn # name)

\* next((n for n in nt.nodes if n.bl_idname == kind), None)
NoNode == "<None>"
FirstOfKind(N, kind) ==
    IF \E n \in DOMAIN N : N[n].bl_idname = kind
    THEN CHOOSE n \in DOMAIN N : N[n].bl_idname = kind
    ELSE NoNode

RECURSIVE FirstIn(_, _)
\* the first name of the sequence names that is in the set S, or NoNode
FirstIn(names, S) ==
    IF names = <<>> THEN NoNode
    ELSE IF Head(names) \in S THEN Head(names)
    ELSE FirstIn(Tail(names), S)

-----------------------------------------------------------------------------
(* The node trees the checks start from.  A tree is put together from a    *)
(* choice record: which nodes exist, what drives the Surface input, which  *)
(* of the other links exist, and whether the links were made in the listed *)
(* order or in the reverse one.                                            *)

nOut  == "Material Output"
nPrin == "Principled BSDF"
nShd  == "Shader"
nMix  == "Mix Shader"
nTex  == "Image Texture"
nRGB  == "RGB"

\* output sockets of a node group: a standard name, a standard name that is
\* not the first output, no standard name, and no output at all
GroupOutputs == {<<"Shader">>, <<"Result", "Color">>, <<"Custom">>, <<>>}

ShaderChoices ==
    {[kind |-> "none", outs |-> <<>>],
     [kind |-> BsdfDiffuse, outs |-> <<"BSDF">>],
     [kind |-> Emission, outs |-> <<"Emission">>]}
    \cup {[kind |-> NodeGroup, outs |-> o] : o \in GroupOutputs}

\* the links a tree may hold beside the one into Surface, in creation order
lkTex == "tex->principled"
lkRGB == "rgb->principled"
lkPrinMix == "principled->mix"
lkShdMix == "shader->mix"
lkSurface == "->surface"
OtherLinks == {lkTex, lkRGB, lkPrinMix, lkShdMix}

Choices(texKinds, rgbKinds, orders) ==
    {c \in [sink : BOOLEAN, prin : BOOLEAN, shd : ShaderChoices, mix : BOOLEAN,
            tex : texKinds, rgb : rgbKinds,
            surf : {"none", "prin", "shd", "mix"},
            other : SUBSET OtherLinks, rev : orders] :
        /\ c.surf = "prin" => c.sink /\ c.prin
        /\ c.surf = "shd" => c.sink /\ c.shd.kind # "none" /\ c.shd.outs # <<>>
        /\ c.surf = "mix" => c.sink /\ c.mix
        /\ lkTex \in c.other => c.tex # "none" /\ c.prin
        /\ lkRGB \in c.other => c.rgb # "none" /\ c.prin
        /\ lkPrinMix \in c.other => c.prin /\ c.mix
        /\ lkShdMix \in c.other => c.shd.kind # "none" /\ c.shd.outs # <<>> /\ c.mix
        /\ (c.other = {} \/ (c.surf = "none" /\ Cardinality(c.other) < 2)) => ~c.rev}

ChoiceNodes(c) ==
    LET present == (IF c.sink THEN {nOut} ELSE {})
                   \cup (IF c.prin THEN {nPrin} ELSE {})
                   \cup (IF c.shd.kind # "none" THEN {nShd} ELSE {})
                   \cup (IF c.mix THEN {nMix} ELSE {})
                   \cup (IF c.tex # "none" THEN {nTex} ELSE {})
                   \cup (IF c.rgb # "none" THEN {nRGB} ELSE {})
    IN [n \in present |->
          CASE n = nOut  -> Node(OutputMaterial, "", <<>>, FALSE)
            [] n = nPrin -> Node(BsdfPrincipled, "", <<"BSDF">>, FALSE)
            [] n = nShd  -> Node(c.shd.kind, "", c.shd.outs, FALSE)
            [] n = nMix  -> Node(MixShader, "", <<"Shader">>, FALSE)
            [] n = nTex  -> Node(TexImage, "", <<"Color", "Alpha">>, c.tex = "img")
            [] n = nRGB  -> Node(RGBNode, IF c.rgb = "temp" THEN TempRGBLabel ELSE "",
                                 <<"Color">>, FALSE)]

ChoiceLink(c, k) ==
    CASE k = lkTex     -> Link(nTex, "Color", nPrin, "Base Color")
      [] k = lkRGB     -> Link(nRGB, "Color", nPrin, "Metallic")
      [] k = lkPrinMix -> Link(nPrin, "BSDF", nMix, "Shader")
      [] k = lkShdMix  -> Link(nShd, Head(c.shd.outs), nMix, "Shader_001")
      [] k = lkSurface ->
           CASE c.surf = "prin" -> Link(nPrin, "BSDF", nOut, "Surface")
             [] c.surf = "shd"  -> Link(nShd, Head(c.shd.outs), nOut, "Surface")
             [] c.surf = "mix"  -> Link(nMix, "Shader", nOut, "Surface")

RECURSIVE Reverse(_)
Reverse(s) == IF s = <<>> THEN <<>> ELSE Append(Reverse(Tail(s)), Head(s))

ChoiceLinks(c) ==
    LET keep == c.other \cup (IF c.surf = "none" THEN {} ELSE {lkSurface})
        inOrder == SelectSeq(<<lkTex, lkRGB, lkPrinMix, lkShdMix, lkSurface>>,
                             LAMBDA k : k \in keep)
        made == [i \in DOMAIN inOrder |-> ChoiceLink(c, inOrder[i])]
    IN IF c.rev THEN Reverse(made) ELSE made

\* default_value of the Principled BSDF inputs, in thousandths
Consts(base_color, metallic, roughness, specular) ==
    [i \in PrincipledInputs |->
        CASE i = "Base Color" -> base_color
          [] i = "Metallic"   -> metallic
          [] i = "Roughness"  -> roughness
          [] i = "Specular"   -> specular]

\* the values the code takes for untouched (src/__init__.py:491-499, 1802)
DefaultConsts == Consts(<<800, 800, 800>>, 0, 500, 0)

-----------------------------------------------------------------------------
(* The probe scopes.  Each @contextmanager function is split where it      *)
(* yields: the part before the yield (open) and its finally block (close). *)
(* A scope is recorded as                                                  *)
(*   kind     which function                                               *)
(*   yielded  the value handed to the with-body is not None                *)
(*   emit     the Emission node the function created, or NoNode            *)
(*   tmp      tmp_nodes (temporary_emission_input)                         *)
(*   orig     the links into Surface the function saved                    *)
(*   pre      the tree when the scope was entered                          *)
(*   body     how the with-body ended                                      *)

Tree(N, L) == [nodes |-> N, links |-> L]

Scope(kind, yielded, emit, tmp, orig, N, L) ==
    [kind |-> kind, yielded |-> yielded, emit |-> emit, tmp |-> tmp,
     orig |-> orig, pre |-> Tree(N, L), body |-> "pending"]

NoScope == [kind |-> "none", yielded |-> FALSE, emit |-> NoNode, tmp |-> <<>>,
            orig |-> <<>>, pre |-> Tree(<<>>, <<>>), body |-> "none"]

Opened(N, L, rec) == [nodes |-> N, links |-> L, rec |-> rec]

EmissionNode(label) == Node(Emission, label, <<"Emission">>, FALSE)
TempRGBNode(label) == Node(RGBNode, label, <<"Color">>, FALSE)

RECURSIVE relink(_, _)
\* for frm, to in original_links: nt.links.new(frm, to)
relink(L, orig) ==
    IF orig = <<>> THEN L
    ELSE relink(links_new(L, Head(orig).fn, Head(orig).fs, Head(orig).tn, Head(orig).ts),
                Tail(orig))

\* the links of emit.outputs['Emission'] and emit.inputs['Color'] removed
unlink_emit(L, emit) ==
    SelectSeq(L, LAMBDA x : ~(x.fn = emit /\ x.fs = "Emission")
                             /\ ~(x.tn = emit /\ x.ts = "Color"))

\* the output socket of the producer that the full-surface probe tries
\* before the original socket (src/__init__.py:573-633)
surface_candidate(node) ==
    LET outs == SeqToSet(node.outputs) IN
    CASE node.bl_idname = NodeGroup ->
           IF FirstIn(shader_output_names, outs) # NoNode
           THEN FirstIn(shader_output_names, outs)
           ELSE IF Len(node.outputs) > 0 THEN node.outputs[1] ELSE NoNode
      [] node.bl_idname \in bsdf_output_types ->
           IF "BSDF" \in outs THEN "BSDF" ELSE NoNode
      [] node.bl_idname = Emission ->
           IF "Emission" \in outs THEN "Emission" ELSE NoNode
      [] node.bl_idname \in mix_types ->
           IF "Shader" \in outs THEN "Shader" ELSE NoNode
      [] OTHER -> NoNode

\* temporary_emission_surface up to its yield.  failNamed: nt.links.new
\* raises for the candidate sockets; failOrig: it raises for the original
\* from_socket too.
temporary_emission_surface_open(N, L, failNamed, failOrig) ==
    LET output == FirstOfKind(N, OutputMaterial) IN
    IF output = NoNode \/ ~is_linked(L, output, "Surface")
    THEN Opened(N, L, Scope("surface", FALSE, NoNode, <<>>, <<>>, N, L))
    ELSE
      LET orig == InLinks(L, output, "Surface")[1]
          L1 == links_remove(L, orig)
          emit == NewName(N, "Emission")
          N1 == nodes_new(N, emit, EmissionNode("Custom Shader Bake"))
          cand == surface_candidate(N[orig.fn])
          rgb == NewName(N1, "RGB")
          N2 == IF cand # NoNode /\ ~failNamed THEN N1
                ELSE IF ~failOrig THEN N1
                ELSE nodes_new(N1, rgb, TempRGBNode(TempRGBLabel))
          L2 == IF cand # NoNode /\ ~failNamed
                THEN links_new(L1, orig.fn, cand, emit, "Color")
                ELSE IF ~failOrig
                THEN links_new(L1, orig.fn, orig.fs, emit, "Color")
                ELSE links_new(L1, rgb, "Color", emit, "Color")
          L3 == links_new(L2, emit, "Emission", output, "Surface")
      IN Opened(N2, L3, Scope("surface", TRUE, emit, <<>>, <<orig>>, N, L))

\* the finally block of temporary_emission_surface
temporary_emission_surface_close(N, L, rec) ==
    IF rec.emit = NoNode THEN Tree(N, L)
    ELSE
      LET L1 == unlink_emit(L, rec.emit)
          temp == {n \in DOMAIN N : N[n].label = TempRGBLabel}
          gone == temp \cup {rec.emit}
          N2 == [n \in DOMAIN N \ gone |-> N[n]]
          L2 == SelectSeq(L1, LAMBDA x : x.fn \notin gone /\ x.tn \notin gone)
          \* a from_socket whose node was removed can no longer be linked
          back == SelectSeq(rec.orig, LAMBDA x : x.fn \in DOMAIN N2)
      IN Tree(N2, relink(L2, back))

\* temporary_principled_only_surface up to its yield
temporary_principled_only_surface_open(N, L, principled_node) ==
    LET output == FirstOfKind(N, OutputMaterial) IN
    IF output = NoNode \/ principled_node = NoNode
    THEN Opened(N, L, Scope("principled_only", FALSE, NoNode, <<>>, <<>>, N, L))
    ELSE
      LET original_links == InLinks(L, output, "Surface")
          L1 == SelectSeq(L, LAMBDA x : ~(x.tn = output /\ x.ts = "Surface"))
          emit == NewName(N, "Emission")
          N1 == nodes_new(N, emit, EmissionNode("Principled Only Bake"))
          outs == N[principled_node].outputs
          L2 == IF "BSDF" \in SeqToSet(outs)
                THEN links_new(L1, principled_node, "BSDF", emit, "Color")
                ELSE IF Len(outs) > 0
                THEN links_new(L1, principled_node, outs[1], emit, "Color")
                ELSE L1
          L3 == links_new(L2, emit, "Emission", output, "Surface")
      IN Opened(N1, L3, Scope("principled_only", TRUE, emit, <<>>, original_links, N, L))

\* the output socket temporary_custom_shader_only_surface connects
\* (src/__init__.py:754-782), NoNode when connection_made stays False
custom_only_socket(node) ==
    LET outs == SeqToSet(node.outputs)
        named == CASE node.bl_idname = NodeGroup -> FirstIn(shader_output_names, outs)
                   [] node.bl_idname = Emission ->
                        IF "Emission" \in outs THEN "Emission" ELSE NoNode
                   [] OTHER -> IF "BSDF" \in outs THEN "BSDF" ELSE NoNode
    IN IF named # NoNode THEN named
       ELSE IF Len(node.outputs) > 0 THEN node.outputs[1] ELSE NoNode

\* temporary_custom_shader_only_surface up to its yield
temporary_custom_shader_only_surface_open(N, L, custom_shader_node) ==
    LET output == FirstOfKind(N, OutputMaterial) IN
    IF output = NoNode \/ custom_shader_node = NoNode
    THEN Opened(N, L, Scope("custom_only", FALSE, NoNode, <<>>, <<>>, N, L))
    ELSE
      LET original_links == InLinks(L, output, "Surface")
          L1 == SelectSeq(L, LAMBDA x : ~(x.tn = output /\ x.ts = "Surface"))
          emit == NewName(N, "Emission")
          N1 == nodes_new(N, emit, EmissionNode("Custom Shader Only Bake"))
          sock == custom_only_socket(N[custom_shader_node])
          L2 == IF sock = NoNode THEN L1
                ELSE links_new(links_new(L1, custom_shader_node, sock, emit, "Color"),
                               emit, "Emission", output, "Surface")
      IN Opened(N1, L2, Scope("custom_only", sock # NoNode, emit, <<>>, original_links, N, L))

\* restricted_surface_close without its last loop: the emission node is
\* removed and the saved links are not made again
restricted_surface_close_no_relink(N, L, rec) ==
    IF rec.emit = NoNode THEN Tree(N, L)
    ELSE Tree(nodes_remove_N(N, rec.emit),
              nodes_remove_L(unlink_emit(L, rec.emit), rec.emit))

\* restricted_surface_close without nt.nodes.remove(emit)
restricted_surface_close_keeps_emit(N, L, rec) ==
    IF rec.emit = NoNode THEN Tree(N, L)
    ELSE Tree(N, relink(unlink_emit(L, rec.emit), rec.orig))

\* the finally block of temporary_principled_only_surface and of
\* temporary_custom_shader_only_surface (the two are the same)
restricted_surface_close(N, L, rec) ==
    IF rec.emit = NoNode THEN Tree(N, L)
    ELSE Tree(nodes_remove_N(N, rec.emit),
              relink(nodes_remove_L(unlink_emit(L, rec.emit), rec.emit), rec.orig))

RECURSIVE remove_first_of_source(_, _)
\* for frm, to in orig_links: if frm.links: nt.links.remove(frm.links[0])
remove_first_of_source(L, orig) ==
    IF orig = <<>> THEN L
    ELSE LET frmLinks == OutLinks(L, Head(orig).fn, Head(orig).fs)
         IN remove_first_of_source(
                IF frmLinks # <<>> THEN links_remove(L, frmLinks[1]) ELSE L, Tail(orig))

\* temporary_emission_input up to its yield.  constFails: reading or
\* assigning the input's default_value raises one of the caught exceptions
\* (src/__init__.py:834-842), after the first RGB node was created.
temporary_emission_input_open(N, L, input_name, constFails) ==
    LET output == FirstOfKind(N, OutputMaterial)
        principled == FirstOfKind(N, BsdfPrincipled)
    IN
    IF output = NoNode \/ principled = NoNode \/ input_name \notin PrincipledInputs
    THEN Opened(N, L, Scope("input", FALSE, NoNode, <<>>, <<>>, N, L))
    ELSE
      LET orig_links == InLinks(L, output, "Surface")
          L1 == remove_first_of_source(L, orig_links)
          emit == NewName(N, "Emission")
          N1 == nodes_new(N, emit, EmissionNode(""))
          linked == is_linked(L1, principled, input_name)
          src == InLinks(L1, principled, input_name)
          rgb == NewName(N1, "RGB")
          N2 == IF linked THEN N1 ELSE nodes_new(N1, rgb, TempRGBNode(""))
          rgb2 == NewName(N2, "RGB")
          N3 == IF ~linked /\ constFails THEN nodes_new(N2, rgb2, TempRGBNode("")) ELSE N2
          L2 == IF linked THEN links_new(L1, src[1].fn, src[1].fs, emit, "Color")
                ELSE IF constFails THEN links_new(L1, rgb2, "Color", emit, "Color")
                ELSE links_new(L1, rgb, "Color", emit, "Color")
          tmp_nodes == IF linked THEN <<emit>>
                       ELSE IF constFails THEN <<emit, rgb2>> ELSE <<emit, rgb>>
          L3 == links_new(L2, emit, "Emission", output, "Surface")
      IN Opened(N3, L3, Scope("input", TRUE, emit, tmp_nodes, orig_links, N, L))

RECURSIVE remove_tmp_nodes(_, _)
\* for n in tmp_nodes: unlink n.outputs[0].links[0], nt.nodes.remove(n)
remove_tmp_nodes(T, tmp) ==
    IF tmp = <<>> THEN T
    ELSE remove_tmp_nodes(Tree(nodes_remove_N(T.nodes, Head(tmp)),
                               nodes_remove_L(T.links, Head(tmp))), Tail(tmp))

\* the finally block of temporary_emission_input
temporary_emission_input_close(N, L, rec) ==
    IF rec.emit = NoNode THEN Tree(N, L)
    ELSE LET T == remove_tmp_nodes(Tree(N, L), rec.tmp)
         IN Tree(T.nodes, relink(T.links, rec.orig))

\* the finally block of the scope rec
probe_close(N, L, rec) ==
    CASE rec.kind = "surface" -> temporary_emission_surface_close(N, L, rec)
      [] rec.kind = "input" -> temporary_emission_input_close(N, L, rec)
      [] OTHER -> restricted_surface_close(N, L, rec)

-----------------------------------------------------------------------------
(* Specification ProbeSpec: one probe scope on one node tree.              *)

SweepOff == [pc |-> "off"]

Top == probes[Len(probes)]

Enter(o) ==
    /\ nodes' = o.nodes
    /\ links' = o.links
    /\ probes' = Append(probes, o.rec)

ProbeInit ==
    /\ \E c \in Choices({"none", "img"}, {"none", "plain", "temp"}, BOOLEAN) :
          /\ nodes = ChoiceNodes(c)
          /\ links = ChoiceLinks(c)
    /\ consts = DefaultConsts
    /\ probes = <<>>
    /\ closed = NoScope
    /\ analysis = <<>>
    /\ sweep = SweepOff

Standalone == sweep.pc = "off" /\ probes = <<>> /\ closed = NoScope

\* with temporary_emission_surface(nt) as temp_emit:
OpenSurface ==
    /\ Standalone
    /\ \E failNamed, failOrig \in BOOLEAN :
          Enter(temporary_emission_surface_open(nodes, links, failNamed, failOrig))
    /\ UNCHANGED <<consts, closed, analysis, sweep>>

\* with temporary_emission_input(nt, input_name):
OpenInput ==
    /\ Standalone
    /\ \E input_name \in {"Base Color", "Metallic", "Sheen"}, constFails \in BOOLEAN :
          Enter(temporary_emission_input_open(nodes, links, input_name, constFails))
    /\ UNCHANGED <<consts, closed, analysis, sweep>>

\* with temporary_principled_only_surface(nt, principled_node) as temp_emit:
OpenPrincipledOnly ==
    /\ Standalone
    /\ Enter(temporary_principled_only_surface_open(
                 nodes, links, FirstOfKind(nodes, BsdfPrincipled)))
    /\ UNCHANGED <<consts, closed, analysis, sweep>>

\* with temporary_custom_shader_only_surface(nt, custom_shader_node) as temp_emit:
OpenCustomOnly ==
    /\ Standalone
    /\ \E n \in {x \in DOMAIN nodes : nodes[x].bl_idname \in shader_types} \cup {NoNode} :
          Enter(temporary_custom_shader_only_surface_open(nodes, links, n))
    /\ UNCHANGED <<consts, closed, analysis, sweep>>

\* the evaluation inside the scope returns
BodyReturns ==
    /\ sweep.pc = "off"
    /\ probes # <<>>
    /\ Top.body = "pending"
    /\ probes' = [probes EXCEPT ![Len(probes)].body = "returned"]
    /\ UNCHANGED <<nodes, links, consts, closed, analysis, sweep>>

\* the evaluation inside the scope raises
BodyRaises ==
    /\ sweep.pc = "off"
    /\ probes # <<>>
    /\ Top.body = "pending"
    /\ probes' = [probes EXCEPT ![Len(probes)].body = "raised"]
    /\ UNCHANGED <<nodes, links, consts, closed, analysis, sweep>>

\* the scope exits: contextlib runs the generator's finally block
ScopeExit ==
    /\ sweep.pc = "off"
    /\ probes # <<>>
    /\ Top.body # "pending"
    /\ LET T == probe_close(nodes, links, Top)
       IN /\ nodes' = T.nodes
          /\ links' = T.links
    /\ closed' = Top
    /\ probes' = SubSeq(probes, 1, Len(probes) - 1)
    /\ UNCHANGED <<consts, analysis, sweep>>

ProbeNext ==
    \/ OpenSurface
    \/ OpenInput
    \/ OpenPrincipledOnly
    \/ OpenCustomOnly
    \/ BodyReturns
    \/ BodyRaises
    \/ ScopeExit

ProbeSpec == ProbeInit /\ [][ProbeNext]_vars

\* the node set and the link set of the tree
NodeSet == DOMAIN nodes
LinkSet == SeqToSet(links)
PreNodeSet == DOMAIN closed.pre.nodes
PreLinkSet == SeqToSet(closed.pre.links)

-----------------------------------------------------------------------------
(* analyze_material *)

\* image_textures: the Image Texture nodes that hold an image
image_textures(N) == {n \in DOMAIN N : N[n].bl_idname = TexImage /\ N[n].image}

\* connected_inputs: the linked inputs of the Principled BSDF
connected_inputs(L, principled) ==
    {i \in PrincipledInputs : is_linked(L, principled, i)}

Abs(x) == IF x < 0 THEN -x ELSE x

\* pure_color_inputs: the unlinked inputs whose value is not the default;
\* only Base Color, Metallic and Roughness are looked at.  Values are in
\* thousandths, so 0.01 is 10 and 0.8 is 800.
pure_color_inputs(L, K, principled) ==
    {i \in PrincipledInputs :
        /\ ~is_linked(L, principled, i)
        /\ \/ /\ i = "Base Color"
              /\ ~(/\ Abs(K[i][1] - 800) < 10
                   /\ Abs(K[i][2] - 800) < 10
                   /\ Abs(K[i][3] - 800) < 10)
           \/ i = "Metallic" /\ Abs(K[i]) > 10
           \/ i = "Roughness" /\ Abs(K[i] - 500) > 10}

\* surface_connection that counts a Mix/Add Shader among the shaders
\* connected directly and does not look at its inputs
surface_connection_mix_direct(N, L, output_node) ==
    IF output_node = NoNode \/ ~is_linked(L, output_node, "Surface")
    THEN [principled |-> FALSE, custom |-> FALSE]
    ELSE
      LET kind == N[InLinks(L, output_node, "Surface")[1].fn].bl_idname
      IN CASE kind = BsdfPrincipled -> [principled |-> TRUE, custom |-> FALSE]
           [] kind \in shader_types -> [principled |-> FALSE, custom |-> TRUE]
           [] OTHER -> [principled |-> FALSE, custom |-> FALSE]

\* principled_connected_to_output and custom_connected_to_output
\* (src/__init__.py:408-452)
surface_connection(N, L, output_node) ==
    IF output_node = NoNode \/ ~is_linked(L, output_node, "Surface")
    THEN [principled |-> FALSE, custom |-> FALSE]
    ELSE
      LET connected_node == InLinks(L, output_node, "Surface")[1].fn
          kind == N[connected_node].bl_idname
          feeders == {N[l.fn].bl_idname : l \in {x \in SeqToSet(L) : x.tn = connected_node}}
      IN CASE kind = BsdfPrincipled -> [principled |-> TRUE, custom |-> FALSE]
           [] kind \in simple_shader_types -> [principled |-> FALSE, custom |-> TRUE]
           [] kind \in mix_types ->
                [principled |-> BsdfPrincipled \in feeders,
                 custom |-> feeders \cap simple_shader_types # {}]
           [] OTHER -> [principled |-> FALSE, custom |-> FALSE]

\* custom_only_type with the two early returns exchanged
custom_only_type_swapped(has_custom) ==
    IF ~has_custom THEN "custom_shader" ELSE "unknown"

\* the two early returns taken when there is no Principled BSDF
\* (src/__init__.py:454-459)
custom_only_type(has_custom) ==
    IF ~has_custom THEN "unknown" ELSE "custom_shader"

\* shader_mix_type without its last else: material_type keeps the value it
\* was initialised with
shader_mix_type_no_else(pco, cco) ==
    IF pco /\ cco THEN "mixed_shader_network"
    ELSE IF pco THEN "principled_with_custom"
    ELSE IF cco THEN "custom_with_principled"
    ELSE "unknown"

\* Principled BSDF and other shaders in one tree (src/__init__.py:513-522)
shader_mix_type(pco, cco) ==
    IF pco /\ cco THEN "mixed_shader_network"
    ELSE IF pco THEN "principled_with_custom"
    ELSE IF cco THEN "custom_with_principled"
    ELSE "mixed_shader"

\* principled_type looking only at the image textures that are linked
principled_type_linked_only(has_image, has_pure, has_connected) ==
    IF has_image /\ has_connected /\ has_pure THEN "mixed"
    ELSE IF has_image /\ has_connected THEN "textured"
    ELSE IF has_pure \/ has_connected THEN "procedural"
    ELSE "default"

\* the subdivision of a Principled BSDF material (src/__init__.py:525-534)
principled_type(has_image, has_pure, has_connected) ==
    IF has_image /\ has_pure THEN "mixed"
    ELSE IF has_image THEN "textured"
    ELSE IF has_pure \/ has_connected THEN "procedural"
    ELSE "default"

\* material_type (src/__init__.py:454-459 and 512-536)
material_type_of(has_principled, has_custom, pco, cco, has_image, has_pure, has_connected) ==
    IF ~has_principled THEN custom_only_type(has_custom)
    ELSE IF has_custom THEN shader_mix_type(pco, cco)
    ELSE principled_type(has_image, has_pure, has_connected)

analyze_material(N, L, K) ==
    LET output_node == FirstOfKind(N, OutputMaterial)
        principled == FirstOfKind(N, BsdfPrincipled)
        custom_shaders == {n \in DOMAIN N : N[n].bl_idname \in shader_types}
        conn == surface_connection(N, L, output_node)
        \* the two early returns leave the texture and colour fields unset
        early == principled = NoNode
        textures == IF early THEN {} ELSE image_textures(N)
        pure == IF early THEN {} ELSE pure_color_inputs(L, K, principled)
        linked == IF early THEN {} ELSE connected_inputs(L, principled)
    IN [output_node |-> output_node,
        principled_node |-> principled,
        custom_shaders |-> custom_shaders,
        principled_connected_to_output |-> conn.principled,
        custom_connected_to_output |-> conn.custom,
        has_image_textures |-> textures # {},
        pure_color_inputs |-> pure,
        connected_inputs |-> linked,
        material_type |->
            material_type_of(principled # NoNode, custom_shaders # {},
                             conn.principled, conn.custom,
                             textures # {}, pure # {}, linked # {})]

-----------------------------------------------------------------------------
(* Specification ClassifySpec: analyze_material called on one material,    *)
(* up to MaxCalls times in a row.                                          *)

MaxCalls == 2

\* values of the Principled BSDF inputs: the defaults, values within 0.01
\* of them, and values away from them
ConstChoices ==
    {Consts(bc, m, r, sp) :
        bc \in {<<800, 800, 800>>, <<805, 795, 800>>, <<800, 200, 200>>},
        m \in {0, 10, 1000}, r \in {500, 900}, sp \in {0, 500}}

Material(N, L, K) == [nodes |-> N, links |-> L, consts |-> K]

ClassifyInit ==
    /\ \E c \in Choices({"none", "img", "noimg"}, {"none", "plain"}, {FALSE}) :
          /\ nodes = ChoiceNodes(c)
          /\ links = ChoiceLinks(c)
          /\ consts \in {k \in ConstChoices : ~c.prin => k = DefaultConsts}
    /\ probes = <<>>
    /\ closed = NoScope
    /\ analysis = <<>>
    /\ sweep = SweepOff

\* Analyze writing the label it reports ('label': node.label if node.label
\* else node.name) back to the node
Analyze_relabels ==
    /\ sweep.pc = "off"
    /\ probes = <<>>
    /\ closed = NoScope
    /\ Len(analysis) < MaxCalls
    /\ nodes' = [n \in DOMAIN nodes |->
                    IF nodes[n].bl_idname \in shader_types /\ nodes[n].label = ""
                    THEN [nodes[n] EXCEPT !.label = n] ELSE nodes[n]]
    /\ UNCHANGED <<links, consts, probes, closed, sweep>>
    /\ analysis' = Append(analysis,
                          [result |-> analyze_material(nodes, links, consts),
                           before |-> Material(nodes, links, consts),
                           after  |-> Material(nodes', links', consts')])

\* analysis = analyze_material(mat)
Analyze ==
    /\ sweep.pc = "off"
    /\ probes = <<>>
    /\ closed = NoScope
    /\ Len(analysis) < MaxCalls
    /\ UNCHANGED <<nodes, links, consts, probes, closed, sweep>>
    /\ analysis' = Append(analysis,
                          [result |-> analyze_material(nodes, links, consts),
                           before |-> Material(nodes, links, consts),
                           after  |-> Material(nodes', links', consts')])

ClassifyNext == Analyze

ClassifySpec == ClassifyInit /\ [][ClassifyNext]_vars

-----------------------------------------------------------------------------
(* Specification SweepSpec: MBNL_OT_bake.execute on one material slot of   *)
(* one object, with mixed_shader_strategy = 'SURFACE_OUTPUT'.  sweep holds *)
(* the locals of execute and the position in its three nested loops:       *)
(*   res_idx, tile, chan   the loop indices (0 before the first pass)      *)
(*   bake_ref              what the local bake_node refers to: "live" (a   *)
(*                         node of the tree), "removed" (nt.nodes.remove   *)
(*                         invalidated it, any access raises               *)
(*                         ReferenceError) or "dangling" (nt.nodes.clear   *)
(*                         freed the node behind it)                       *)
(*   all_baked_images      the pairs <<resolution, suffix>> that hold an   *)
(*                         image                                           *)
(*   saved                 the files written by img.save()                 *)
(*   processed, failed     the channel passes that reached the bake, and   *)
(*                         those in which the bake raised                  *)
(*   rebuilds              one entry per execution of the rebuild block    *)
(*   uvs, mesh             the UV coordinates of the object's loops, now   *)
(*                         and when the operator was started               *)

MaxEngineFailures == 1

\* resolutions as sorted by area (src/__init__.py:1494-1502): one, two and
\* three squares, and a square with a custom rectangle of the same area
ResolutionChoices ==
    {<< <<512, 512>> >>,
     << <<512, 512>>, <<1024, 1024>> >>,
     << <<512, 512>>, <<1024, 1024>>, <<2048, 2048>> >>,
     << <<1024, 1024>>, <<512, 2048>> >>}

\* get_udim_tile_bounds counting the tiles from 1000
get_udim_tile_bounds_from_1000(udim_number) ==
    LET tile_index == udim_number - 1000
    IN [tile_u |-> tile_index % 10, tile_v |-> tile_index \div 10]

\* get_udim_tile_bounds(udim_number)
get_udim_tile_bounds(udim_number) ==
    LET tile_index == udim_number - 1001
    IN [tile_u |-> tile_index % 10, tile_v |-> tile_index \div 10]

\* the UDIM number detect_udim_tiles computes for a tile column and row
udim_number_of(tile_u, tile_v) == 1001 + tile_u + (tile_v * 10)

\* int(x) of a coordinate given in tenths: the fraction is cut off, towards
\* zero for a negative coordinate
int_of_tenths(x) == IF x >= 0 THEN x \div 10 ELSE -((-x) \div 10)

\* The UV coordinates of the object's loops, in tenths: uvs[i] = <<u, v>>.
tile_of_uv(uv) == udim_number_of(int_of_tenths(uv[1]), int_of_tenths(uv[2]))

RECURSIVE sorted(_)
sorted(S) ==
    IF S = {} THEN <<>>
    ELSE LET least == CHOOSE x \in S : \A y \in S : x =< y
         IN <<least>> \o sorted(S \ {least})

\* detect_udim_tiles(obj)
detect_udim_tiles(uvs) ==
    sorted({t \in {tile_of_uv(uvs[i]) : i \in DOMAIN uvs} : 1001 =< t /\ t =< 1100})

\* uv inside the window of the tile
in_tile(uv, b) ==
    /\ b.tile_u * 10 =< uv[1] /\ uv[1] < (b.tile_u + 1) * 10
    /\ b.tile_v * 10 =< uv[2] /\ uv[2] < (b.tile_v + 1) * 10

\* the coordinates normalize_udim_uvs_for_baking assigns to the loops of bm
normalize_udim_uvs_for_baking(uvs, udim_number) ==
    LET b == get_udim_tile_bounds(udim_number)
    IN [i \in DOMAIN uvs |->
          IF in_tile(uvs[i], b)
          THEN <<uvs[i][1] - b.tile_u * 10, uvs[i][2] - b.tile_v * 10>>
          ELSE uvs[i]]

\* restore_udim_uvs that returns without assigning
restore_udim_uvs_skipped(uvs, original_uvs) == uvs

\* the coordinates restore_udim_uvs assigns to the loops of bm
restore_udim_uvs(uvs, original_uvs) ==
    IF original_uvs = <<>> THEN uvs
    ELSE [i \in DOMAIN uvs |-> IF i \in DOMAIN original_uvs THEN original_uvs[i] ELSE uvs[i]]

\* a mesh with loops in the tiles 1001 and 1002, and one with all its loops
\* in the tile 1002
MeshTwoTiles == << <<5, 5>>, <<15, 5>>, <<19, 2>> >>
MeshOneTile == << <<15, 5>>, <<12, 8>> >>

\* udim_tiles (src/__init__.py:1535-1551): without UDIM, detected from the
\* two meshes, and given as the range 1002..1002.  bm_synced tells whether
\* what the two functions assign to the loops of bm, a BMesh made by
\* bmesh.new() and from_mesh(), arrives in the object's mesh:
\* bmesh.update_edit_mesh(obj.data) is not given bm.
TileChoices ==
    {[enable_udim |-> FALSE, udim_tiles |-> <<1001>>, uvs |-> MeshTwoTiles,
      bm_synced |-> TRUE]}
    \cup {[enable_udim |-> TRUE, udim_tiles |-> ts, uvs |-> m, bm_synced |-> y] :
            ts \in {<<1002>>}, m \in {MeshTwoTiles}, y \in BOOLEAN}
    \cup {[enable_udim |-> TRUE, udim_tiles |-> detect_udim_tiles(m), uvs |-> m,
           bm_synced |-> y] : m \in {MeshTwoTiles, MeshOneTile}, y \in BOOLEAN}

\* max(resolutions, key=lambda x: x[0] * x[1]): the first of the largest
primary_resolution(resolutions) ==
    LET area(i) == resolutions[i][1] * resolutions[i][2]
        first == CHOOSE i \in DOMAIN resolutions :
                    /\ \A j \in DOMAIN resolutions : area(j) =< area(i)
                    /\ \A j \in 1..(i - 1) : area(j) < area(i)
    IN resolutions[first]

\* the pass list for the channels Roughness, Metallic, Normal, Specular and
\* CustomShader, in the order execute appends them
build_passes(include, L, an) ==
    (IF "Roughness" \in include
     THEN <<[suffix |-> "Roughness",
             emission_input |->
                IF an.material_type \in {"procedural", "default"} /\ ~an.has_image_textures
                THEN "Roughness" ELSE NoNode]>>
     ELSE <<>>)
    \o (IF "Metallic" \in include
        THEN <<[suffix |-> "Metallic", emission_input |-> "Metallic"]>> ELSE <<>>)
    \o (IF "Normal" \in include
        THEN <<[suffix |-> "Normal", emission_input |-> NoNode]>> ELSE <<>>)
    \o (IF "Specular" \in include
        THEN <<[suffix |-> "Specular", emission_input |-> "Specular"]>> ELSE <<>>)
    \o (IF "CustomShader" \in include /\ an.output_node # NoNode
           /\ is_linked(L, an.output_node, "Surface")
        THEN <<[suffix |-> "CustomShader", emission_input |-> NoNode]>> ELSE <<>>)

\* should_bake that never skips a channel
should_bake_always(an, L, K, pass) == TRUE

\* should_bake: on a material without image textures an unlinked Metallic,
\* Roughness or Specular input left at its default is not baked
should_bake(an, L, K, pass) ==
    ~(/\ an.material_type \in {"procedural", "default"}
      /\ ~an.has_image_textures
      /\ pass.emission_input \in PrincipledInputs
      /\ an.principled_node # NoNode
      /\ ~is_linked(L, an.principled_node, pass.emission_input)
      /\ \/ pass.suffix = "Metallic" /\ Abs(K[pass.emission_input]) < 10
         \/ pass.suffix = "Roughness" /\ Abs(K[pass.emission_input] - 500) < 10
         \/ pass.suffix = "Specular" /\ Abs(K[pass.emission_input]) < 10)

\* what the with-statements of one channel do: invoked tells whether
\* bake_generic is called, wired is the tree at that moment (the tree inside
\* the innermost scope), after is the tree when every scope has been left
Baked(invoked, wired, after) == [invoked |-> invoked, wired |-> wired, after |-> after]

\* with temporary_emission_surface(nt) as temp_emit: if temp_emit: bake
in_surface_scope(N, L) ==
    LET o == temporary_emission_surface_open(N, L, FALSE, FALSE)
    IN Baked(o.rec.yielded, Tree(o.nodes, o.links),
             temporary_emission_surface_close(o.nodes, o.links, o.rec))

\* a restricted scope o around the bake, with the full-surface scope nested
\* in it when it yielded None (src/__init__.py:1827-1834 and 1847-1854)
in_restricted_scope(o) ==
    IF o.rec.yielded
    THEN Baked(TRUE, Tree(o.nodes, o.links),
               restricted_surface_close(o.nodes, o.links, o.rec))
    ELSE LET inner == in_surface_scope(o.nodes, o.links)
         IN Baked(inner.invoked, inner.wired,
                  restricted_surface_close(inner.after.nodes, inner.after.links, o.rec))

mixed_types == {"mixed_shader_network", "principled_with_custom", "custom_with_principled"}

\* bake_in_probe that does not look at mixed_shader_strategy
bake_in_probe_any_strategy(N, L, an, strategy, first_custom, pass) ==
    CASE pass.suffix = "CustomShader" -> in_surface_scope(N, L)
      [] pass.emission_input # NoNode ->
           LET o == temporary_emission_input_open(N, L, pass.emission_input, FALSE)
           IN Baked(TRUE, Tree(o.nodes, o.links),
                    temporary_emission_input_close(o.nodes, o.links, o.rec))
      [] OTHER -> Baked(TRUE, Tree(N, L), Tree(N, L))

\* the branch of the channel's try block that bakes the pass
\* (src/__init__.py:1815-1929); first_custom is custom_shaders[0]['node']
bake_in_probe(N, L, an, strategy, first_custom, pass) ==
    CASE pass.suffix = "CustomShader" ->
           IF an.material_type \in mixed_types /\ strategy = "PRINCIPLED_ONLY"
              /\ an.principled_node # NoNode
           THEN in_restricted_scope(
                    temporary_principled_only_surface_open(N, L, an.principled_node))
           ELSE IF an.material_type \in mixed_types /\ strategy = "CUSTOM_ONLY"
                   /\ first_custom # NoNode
           THEN in_restricted_scope(
                    temporary_custom_shader_only_surface_open(N, L, first_custom))
           ELSE in_surface_scope(N, L)
      [] pass.emission_input # NoNode ->
           LET o == temporary_emission_input_open(N, L, pass.emission_input, FALSE)
           IN Baked(TRUE, Tree(o.nodes, o.links),
                    temporary_emission_input_close(o.nodes, o.links, o.rec))
      [] OTHER -> Baked(TRUE, Tree(N, L), Tree(N, L))

node_order ==
    <<"BaseColor", "Roughness", "Metallic", "Normal", "Subsurface", "Transmission",
      "Emission", "Alpha", "Specular", "Clearcoat", "ClearcoatRoughness", "Sheen",
      "Displacement", "AO">>

RECURSIVE add_tex_nodes(_, _)
\* for key in node_order: if key in primary_baked_images: tex = nt.nodes.new(...)
add_tex_nodes(N, keys) ==
    IF keys = <<>> THEN N
    ELSE add_tex_nodes(nodes_new(N, NewName(N, "Image Texture"),
                                 Node(TexImage, Head(keys), <<"Color", "Alpha">>, TRUE)),
                       Tail(keys))

\* nt.nodes.clear() and the canonical tree built from primary_baked_images
rebuild(primary_baked_images) ==
    LET keys == SelectSeq(node_order, LAMBDA k : k \in primary_baked_images)
        N1 == add_tex_nodes(<<>>, keys)
        tex(k) == CHOOSE n \in DOMAIN N1 : N1[n].label = k
        N2 == IF "Normal" \in primary_baked_images
              THEN nodes_new(N1, "Normal Map",
                             Node("ShaderNodeNormalMap", "Normal Map", <<"Normal">>, FALSE))
              ELSE N1
        N3 == nodes_new(N2, nPrin, Node(BsdfPrincipled, "Principled BSDF", <<"BSDF">>, FALSE))
        N4 == nodes_new(N3, nOut, Node(OutputMaterial, "Material Output", <<>>, FALSE))
        L0 == IF "Roughness" \in primary_baked_images
              THEN links_new(<<>>, tex("Roughness"), "Color", nPrin, "Roughness") ELSE <<>>
        L1 == IF "Metallic" \in primary_baked_images
              THEN links_new(L0, tex("Metallic"), "Color", nPrin, "Metallic") ELSE L0
        L2 == IF "Normal" \in primary_baked_images
              THEN links_new(links_new(L1, tex("Normal"), "Color", "Normal Map", "Color"),
                             "Normal Map", "Normal", nPrin, "Normal")
              ELSE L1
        L3 == IF "Specular" \in primary_baked_images
              THEN links_new(L2, tex("Specular"), "Color", nPrin, "Specular") ELSE L2
    IN Tree(N4, links_new(L3, nPrin, "BSDF", nOut, "Surface"))

\* the except branch of the rebuild without its nt.links.new
rebuild_fallback_unlinked ==
    Tree(nodes_new(nodes_new(<<>>, nPrin, Node(BsdfPrincipled, "", <<"BSDF">>, FALSE)),
                   nOut, Node(OutputMaterial, "", <<>>, FALSE)),
         <<>>)

\* the except branch of the rebuild: nt.nodes.clear(), a Principled BSDF and
\* a Material Output, BSDF -> Surface
rebuild_fallback ==
    Tree(nodes_new(nodes_new(<<>>, nPrin, Node(BsdfPrincipled, "", <<"BSDF">>, FALSE)),
                   nOut, Node(OutputMaterial, "", <<>>, FALSE)),
         links_new(<<>>, nPrin, "BSDF", nOut, "Surface"))

\* the channels switched on in the operator's panel
IncludeChoices ==
    {{"Metallic", "Normal"}, {"Normal", "CustomShader"}, {"Metallic", "CustomShader"}}

StrategyChoices == {"SURFACE_OUTPUT", "PRINCIPLED_ONLY", "CUSTOM_ONLY"}

\* the locals of execute before the first material slot is processed
SweepStart(rs, udim, rep, inc, strategy) ==
    [pc |-> "material", resolutions |-> rs, udim_tiles |-> udim.udim_tiles,
     enable_udim |-> udim.enable_udim, uvs |-> udim.uvs, bm_synced |-> udim.bm_synced,
     mesh |-> udim.uvs,
     include |-> inc, replace_nodes |-> rep, passes |-> <<>>,
     mixed_shader_strategy |-> strategy, first_custom |-> NoNode,
     engine_calls |-> <<>>, wired |-> <<>>,
     res_idx |-> 0, tile |-> 0, chan |-> 0,
     bake_node |-> NoNode, bake_ref |-> "none", original_uvs |-> <<>>,
     all_baked_images |-> {}, saved |-> {}, processed |-> {},
     failed |-> {}, aborted |-> {}, rebuilds |-> <<>>,
     engine_raised |-> 0,
     relink_failed |-> {}]

\* SweepSpec starts from a material whose sink is driven, with the strategy
\* left at SURFACE_OUTPUT, and goes through every list of resolutions and
\* tiles
SweepTrees ==
    {c \in Choices({"none", "img"}, {"none"}, {FALSE}) :
        /\ c.sink /\ c.surf # "none"
        /\ c.shd.kind \in {"none", BsdfDiffuse}
        /\ c.other \subseteq {lkTex, lkPrinMix}}

SweepInit ==
    /\ \E c \in SweepTrees :
          /\ nodes = ChoiceNodes(c)
          /\ links = ChoiceLinks(c)
    /\ consts = DefaultConsts
    /\ probes = <<>>
    /\ closed = NoScope
    /\ analysis = <<>>
    /\ \E rs \in ResolutionChoices, ts \in TileChoices, rep \in BOOLEAN,
          inc \in IncludeChoices :
          sweep = SweepStart(rs, ts, rep, inc, "SURFACE_OUTPUT")

\* for slot in material_slots: up to the resolution loop
\* (analyze_material, bake_node = nt.nodes.new(...), passes)
BeginMaterial ==
    /\ sweep.pc = "material"
    /\ LET an == analyze_material(nodes, links, consts)
           bake_node == NewName(nodes, "Image Texture")
           \* custom_shaders[0] is the shader that comes first in nt.nodes; any of
           \* them may, and the choice is only read by the CUSTOM_ONLY strategy
           firsts == IF an.custom_shaders = {} THEN {NoNode}
                     ELSE IF sweep.mixed_shader_strategy = "CUSTOM_ONLY"
                     THEN an.custom_shaders
                     ELSE {CHOOSE n \in an.custom_shaders : TRUE}
       IN /\ analysis' = <<[result |-> an,
                            before |-> Material(nodes, links, consts),
                            after |-> Material(nodes, links, consts)]>>
          /\ nodes' = nodes_new(nodes, bake_node,
                                Node(TexImage, "", <<"Color", "Alpha">>, FALSE))
          /\ \E first \in firsts :
                sweep' = [sweep EXCEPT !.pc = "resolution",
                                       !.bake_node = bake_node,
                                       !.bake_ref = "live",
                                       !.first_custom = first,
                                       !.passes = build_passes(sweep.include, links, an)]
    /\ UNCHANGED <<links, consts, probes, closed>>

\* for res_idx, (width, height) in enumerate(resolutions):
BeginResolution ==
    /\ sweep.pc = "resolution"
    /\ sweep' = [sweep EXCEPT !.pc = "tile", !.res_idx = @ + 1, !.tile = 0]
    /\ UNCHANGED <<nodes, links, consts, probes, closed, analysis>>

\* for udim_tile in udim_tiles: up to the try of the channel loop
BeginTile ==
    /\ sweep.pc = "tile"
    /\ LET t == sweep.tile + 1
           normalize == sweep.enable_udim /\ Len(sweep.udim_tiles) > 1
                        /\ sweep.udim_tiles[t] # 1001
       IN sweep' = [sweep EXCEPT !.pc = "channel", !.tile = t, !.chan = 0,
                       !.original_uvs = IF normalize THEN sweep.uvs ELSE <<>>,
                       !.uvs = IF normalize /\ sweep.bm_synced
                               THEN normalize_udim_uvs_for_baking(@, sweep.udim_tiles[t])
                               ELSE @]
    /\ UNCHANGED <<nodes, links, consts, probes, closed, analysis>>

Resolution == sweep.resolutions[sweep.res_idx]
UdimTile == sweep.udim_tiles[sweep.tile]

\* where the channel loop goes after a pass
AfterPass(c) == IF c < Len(sweep.passes) THEN "channel" ELSE "tile_end"

\* the channel's try block once the probe result B is known: the engine
\* returns or raises, or nt.links.new raises in the finally block of the probe
TryChannel(N1, B, an, pass, c) ==
    LET T == B.after
        key == <<Resolution, UdimTile, pass.suffix>>
        id == <<sweep.res_idx, sweep.tile, c>>
        out == FirstOfKind(N1, OutputMaterial)
        \* the finally block of the probe has removed the node whose socket
        \* it then hands to nt.links.new
        freed == \E l \in SeqToSet(InLinks(links, out, "Surface")) :
                    l.fn \notin DOMAIN T.nodes
    IN \E bake \in IF sweep.bake_ref = "live"
                   THEN {should_bake(an, links, consts, pass)} ELSE BOOLEAN,
          engine \in {"returns", "raises", "relink_raises"} :
          /\ engine = "raises" =>
                bake /\ B.invoked /\ sweep.engine_raised < MaxEngineFailures
          /\ engine = "relink_raises" => bake /\ freed
          /\ nodes' = IF bake THEN T.nodes ELSE N1
          /\ links' = IF bake THEN T.links ELSE links
          /\ sweep' =
               IF engine = "returns"
               THEN [sweep EXCEPT !.pc = AfterPass(c), !.chan = c,
                        !.processed = @ \cup {id},
                        !.engine_calls = IF bake /\ B.invoked THEN Append(@, id) ELSE @,
                        !.wired = IF bake /\ B.invoked THEN B.wired.links ELSE @,
                        !.saved = @ \cup {key},
                        !.all_baked_images = @ \cup {<<Resolution, pass.suffix>>}]
               ELSE [sweep EXCEPT !.pc = AfterPass(c), !.chan = c,
                        !.processed = @ \cup {id},
                        !.engine_raised = IF engine = "raises" THEN @ + 1 ELSE @,
                        !.relink_failed = IF engine = "relink_raises"
                                          THEN @ \cup {id} ELSE @,
                        !.engine_calls = IF B.invoked THEN Append(@, id) ELSE @,
                        !.wired = IF B.invoked THEN B.wired.links ELSE @,
                        !.failed = @ \cup
                           {[id |-> id, key |-> key,
                             restored |->
                                /\ DOMAIN T.nodes = DOMAIN N1
                                /\ InLinks(T.links, out, "Surface")
                                     = InLinks(links, out, "Surface")]}]

\* one pass of the channel loop in which bake_node.image = img succeeds.
\* With a live bake_node the pass is baked in its probe scope (the engine
\* returns or raises) or, when should_bake is false, a solid image is
\* written.  With a dangling bake_node the assignment may go through
\* unnoticed, and so may the read of the freed principled node.
BakeChannel ==
    /\ sweep.pc = "channel"
    /\ sweep.bake_ref \in {"live", "dangling"}
    \* after nt.nodes.clear() first_custom is freed as well: it is not followed
    /\ (sweep.bake_ref = "dangling" /\ sweep.mixed_shader_strategy = "CUSTOM_ONLY")
          => sweep.first_custom \in DOMAIN nodes
    /\ LET c == sweep.chan + 1
           pass == sweep.passes[c]
           an == analysis[1].result
           N1 == IF sweep.bake_ref = "live"
                 THEN [nodes EXCEPT ![sweep.bake_node].image = TRUE] ELSE nodes
       IN TryChannel(N1,
                     bake_in_probe(N1, links, an, sweep.mixed_shader_strategy,
                                   sweep.first_custom, pass),
                     an, pass, c)
    /\ UNCHANGED <<consts, probes, closed, analysis>>

\* bake_node.image = img raises: the except of the tile's try ends the
\* channel loop of this tile
ChannelRefError ==
    /\ sweep.pc = "channel"
    /\ sweep.bake_ref \in {"removed", "dangling"}
    /\ sweep' = [sweep EXCEPT !.pc = "tile_end", !.chan = @ + 1,
                    !.aborted = @ \cup {<<sweep.res_idx, sweep.tile>>}]
    /\ UNCHANGED <<nodes, links, consts, probes, closed, analysis>>

\* an access through the dangling bake_node ends the process
Crash ==
    /\ sweep.pc \in {"channel", "cleanup"}
    /\ sweep.bake_ref = "dangling"
    /\ sweep' = [sweep EXCEPT !.pc = "crashed"]
    /\ UNCHANGED <<nodes, links, consts, probes, closed, analysis>>

\* finally: restore_udim_uvs; then the next tile or the end of the tile loop
EndTile ==
    /\ sweep.pc = "tile_end"
    /\ sweep' = [sweep EXCEPT
                    !.uvs = IF sweep.bm_synced
                            THEN restore_udim_uvs(@, sweep.original_uvs) ELSE @,
                    !.pc = IF sweep.tile < Len(sweep.udim_tiles)
                           THEN "tile" ELSE "rebuild"]
    /\ UNCHANGED <<nodes, links, consts, probes, closed, analysis>>

\* the rebuild block, run at the end of each pass of the resolution loop
Rebuild ==
    /\ sweep.pc = "rebuild"
    /\ LET primary == primary_resolution(sweep.resolutions)
           primary_baked_images ==
               {k[2] : k \in {x \in sweep.all_baked_images : x[1] = primary}}
       IN IF sweep.replace_nodes /\ primary_baked_images # {}
          THEN \* a statement of the try block may raise once the tree is cleared
               \E raised \in BOOLEAN :
                  LET T == IF raised THEN rebuild_fallback
                           ELSE rebuild(primary_baked_images)
                  IN /\ nodes' = T.nodes
                     /\ links' = T.links
                     /\ sweep' = [sweep EXCEPT !.pc = "cleanup",
                               !.bake_ref = IF @ = "live" THEN "dangling" ELSE @,
                               !.rebuilds = Append(@, [res |-> primary,
                                                       at |-> sweep.res_idx,
                                                       images |-> primary_baked_images,
                                                       raised |-> raised,
                                                       saved |-> sweep.saved,
                                                       recorded |-> sweep.all_baked_images])]
          ELSE /\ sweep' = [sweep EXCEPT !.pc = "cleanup"]
               /\ UNCHANGED <<nodes, links>>
    /\ UNCHANGED <<consts, probes, closed, analysis>>

\* the bake-node cleanup, the last statement of the resolution loop's body
Cleanup ==
    /\ sweep.pc = "cleanup"
    /\ LET next == IF sweep.res_idx < Len(sweep.resolutions) THEN "resolution" ELSE "done"
       IN IF sweep.bake_ref = "live"
          THEN /\ nodes' = nodes_remove_N(nodes, sweep.bake_node)
               /\ links' = nodes_remove_L(links, sweep.bake_node)
               /\ sweep' = [sweep EXCEPT !.pc = next, !.bake_ref = "removed"]
          ELSE /\ sweep' = [sweep EXCEPT !.pc = next]
               /\ UNCHANGED <<nodes, links>>
    /\ UNCHANGED <<consts, probes, closed, analysis>>

SweepNext ==
    \/ BeginMaterial
    \/ BeginResolution
    \/ BeginTile
    \/ BakeChannel
    \/ ChannelRefError
    \/ Crash
    \/ EndTile
    \/ Rebuild
    \/ Cleanup

SweepSpec == SweepInit /\ [][SweepNext]_vars

-----------------------------------------------------------------------------
(* Specification ChannelSpec: the same operator on one tile, started from  *)
(* more materials and with every mixed_shader_strategy; one resolution, or *)
(* two of the same area.                                                   *)

ChannelTrees ==
    {c \in Choices({"none", "img"}, {"none"}, {FALSE}) :
        /\ c.sink /\ c.surf # "none"
        /\ c.shd.kind \in {"none", BsdfDiffuse, Emission}
              \/ (c.shd.kind = NodeGroup /\ c.shd.outs = <<>>)
        /\ c.tex = "img" <=> lkTex \in c.other}

ChannelInit ==
    \* the node that drives Surface may carry the label of the probe's RGB node
    /\ \E c \in ChannelTrees, labelled \in BOOLEAN :
          /\ labelled => c.surf = "shd"
          /\ nodes = IF labelled
                     THEN [ChoiceNodes(c) EXCEPT ![nShd].label = TempRGBLabel]
                     ELSE ChoiceNodes(c)
          /\ links = ChoiceLinks(c)
    /\ consts \in {DefaultConsts,
                   Consts(<<800, 800, 800>>, 1000, 500, 0),
                   Consts(<<800, 200, 200>>, 0, 500, 500)}
    /\ probes = <<>>
    /\ closed = NoScope
    /\ analysis = <<>>
    /\ \E rs \in {r \in ResolutionChoices :
                    \A i \in DOMAIN r : r[i][1] * r[i][2] = r[1][1] * r[1][2]},
          rep \in BOOLEAN, strategy \in StrategyChoices,
          inc \in IncludeChoices \cup {{"Roughness", "Metallic", "Specular"}} :
          \* the strategy is only read for the CustomShader channel
          /\ "CustomShader" \notin inc => strategy = "SURFACE_OUTPUT"
          /\ sweep = SweepStart(rs, CHOOSE u \in TileChoices : ~u.enable_udim,
                                rep, inc, strategy)

ChannelSpec == ChannelInit /\ [][SweepNext]_vars

-----------------------------------------------------------------------------
(* Specification UdimSpec: the UDIM numbering functions called on every    *)
(* tile number and on every tile column and row; analysis keeps the latest  *)
(* call of each function.                                                  *)

others(fn) == SelectSeq(analysis, LAMBDA e : e.fn # fn)

UdimInit ==
    /\ nodes = <<>>
    /\ links = <<>>
    /\ consts = DefaultConsts
    /\ probes = <<>>
    /\ closed = NoScope
    /\ analysis = <<>>
    /\ sweep = SweepOff

\* bounds = get_udim_tile_bounds(udim_number)
BoundsOfTile ==
    /\ \E udim_number \in 1001..1100 :
          analysis' = Append(others("get_udim_tile_bounds"),
                             [fn |-> "get_udim_tile_bounds", arg |-> udim_number,
                              bounds |-> get_udim_tile_bounds(udim_number)])
    /\ UNCHANGED <<nodes, links, consts, probes, closed, sweep>>

\* the UDIM number of a tile column and row as detect_udim_tiles computes
\* it, and get_udim_tile_bounds of that number
TileOfCoords ==
    /\ \E tile_u \in 0..9, tile_v \in 0..9 :
          analysis' = Append(others("detect_udim_tiles"),
                             [fn |-> "detect_udim_tiles", arg |-> <<tile_u, tile_v>>,
                              udim_number |-> udim_number_of(tile_u, tile_v),
                              bounds |-> get_udim_tile_bounds(udim_number_of(tile_u, tile_v))])
    /\ UNCHANGED <<nodes, links, consts, probes, closed, sweep>>

UdimNext == BoundsOfTile \/ TileOfCoords

UdimSpec == UdimInit /\ [][UdimNext]_vars

-----------------------------------------------------------------------------
(* Specification DetectSpec: detect_udim_tiles on a mesh of at most        *)
(* MaxLoops loops.  analysis holds the call: its mesh, and its result once *)
(* it has returned.                                                        *)

MaxLoops == 2

\* UV coordinates in tenths: inside tiles of 1001..1100, left of and below
\* the tile 1001, and right of the tenth column
UVSamples == {<<u, v>> : u \in {-15, -5, 5, 15, 95, 105}, v \in {-5, 5, 15}}

DetectInit ==
    /\ nodes = <<>>
    /\ links = <<>>
    /\ consts = DefaultConsts
    /\ probes = <<>>
    /\ closed = NoScope
    /\ sweep = SweepOff
    /\ \E n \in 0..MaxLoops : \E uvs \in [1..n -> UVSamples] :
          analysis = <<[fn |-> "detect_udim_tiles", arg |-> uvs,
                        returned |-> FALSE, tiles |-> <<>>]>>

\* tiles = detect_udim_tiles(obj)
DetectTiles ==
    /\ ~analysis[1].returned
    /\ analysis' = <<[analysis[1] EXCEPT !.returned = TRUE,
                                         !.tiles = detect_udim_tiles(analysis[1].arg)]>>
    /\ UNCHANGED <<nodes, links, consts, probes, closed, sweep>>

DetectNext == DetectTiles

DetectSpec == DetectInit /\ [][DetectNext]_vars

-----------------------------------------------------------------------------
(* Specification AtlasSpec: the material atlas.  A coordinate is a whole   *)
(* number of parts together with the number of parts that make 1.0: the    *)
(* padding is a number of PadDen-ths, a column is PadDen parts wide and a  *)
(* UV coordinate of the mesh is a number of UVSteps-ths.  The mesh has one *)
(* face for each material slot.                                            *)

MaxMaterials == 32
PadDen == 100
UVSteps == 2

\* atlas_padding: FloatProperty(min=0.0, max=0.1), taken below 0.1
Paddings == {p \in 0..PadDen : 10 * p < PadDen}

\* math.ceil(math.sqrt(material_count))
sqrt_count(material_count) ==
    CHOOSE k \in 1..material_count :
        k * k >= material_count /\ (k - 1) * (k - 1) < material_count

\* calculate_atlas_layout(material_count)
calculate_atlas_layout(material_count) ==
    IF material_count <= 1 THEN <<1, 1>>
    ELSE IF material_count <= 2 THEN <<2, 1>>
    ELSE IF material_count <= 4 THEN <<2, 2>>
    ELSE IF material_count <= 6 THEN <<3, 2>>
    ELSE IF material_count <= 9 THEN <<3, 3>>
    ELSE IF material_count <= 12 THEN <<4, 3>>
    ELSE IF material_count <= 16 THEN <<4, 4>>
    ELSE <<sqrt_count(material_count), sqrt_count(material_count)>>

\* get_atlas_uv_bounds taking the row from the number of rows
get_atlas_uv_bounds_row_by_rows(material_index, cols, rows, padding) ==
    LET col == material_index % cols
        row == material_index \div rows
        u_size == PadDen
        v_size == PadDen
    IN [u_min |-> col * u_size + padding,
        v_min |-> row * v_size + padding,
        u_max |-> col * u_size + u_size - padding,
        v_max |-> row * v_size + v_size - padding,
        u_one |-> cols * PadDen,
        v_one |-> rows * PadDen]

\* get_atlas_uv_bounds(material_index, cols, rows, padding): u in parts of
\* 1 / (cols * PadDen), v in parts of 1 / (rows * PadDen)
get_atlas_uv_bounds(material_index, cols, rows, padding) ==
    LET col == material_index % cols
        row == material_index \div cols
        u_size == PadDen
        v_size == PadDen
        padding_u == padding
        padding_v == padding
    IN [u_min |-> col * u_size + padding_u,
        v_min |-> row * v_size + padding_v,
        u_max |-> col * u_size + u_size - padding_u,
        v_max |-> row * v_size + v_size - padding_v,
        u_one |-> cols * PadDen,
        v_one |-> rows * PadDen]

\* new_u = u_min + orig_u * (u_max - u_min), and new_v likewise
remap_uv(uv, b) ==
    [u |-> b.u_min * uv.u_one + uv.u * (b.u_max - b.u_min),
     v |-> b.v_min * uv.v_one + uv.v * (b.v_max - b.v_min),
     u_one |-> b.u_one * uv.u_one,
     v_one |-> b.v_one * uv.v_one]

layer_names(uv_layers) == {uv_layers[i].name : i \in DOMAIN uv_layers}

layer_named(uv_layers, name) ==
    uv_layers[CHOOSE i \in DOMAIN uv_layers : uv_layers[i].name = name]

\* create_atlas_uv_layer(obj, material_slots, atlas_layout, padding): the
\* new layer starts as a copy of the active one; the remapped coordinates
\* reach the mesh when the BMesh they were written to is the edit mesh
create_atlas_uv_layer(uv_layers, active, uvs, layout, padding, material_count, synced) ==
    LET first == IF uv_layers = <<>> THEN <<[name |-> "UVMap", uvs |-> uvs]>>
                 ELSE uv_layers
        act == IF uv_layers = <<>> THEN "UVMap" ELSE active
        copy == layer_named(first, act).uvs
        atlas == [f \in DOMAIN copy |->
                    IF synced /\ f - 1 < material_count
                    THEN remap_uv(copy[f],
                                  get_atlas_uv_bounds(f - 1, layout[1], layout[2], padding))
                    ELSE copy[f]]
    IN [uv_layers |-> Append(first, [name |-> "AtlasUV", uvs |-> atlas]),
        active |-> "AtlasUV"]

\* restore_original_uv_layer(obj, original_uv_name)
restore_original_uv_layer(uv_layers, active, original_uv_name) ==
    IF original_uv_name \in layer_names(uv_layers)
    THEN [uv_layers |-> SelectSeq(uv_layers, LAMBDA l : l.name # "AtlasUV"),
          active |-> original_uv_name]
    ELSE [uv_layers |-> uv_layers, active |-> active]

AtlasPassChoices == {<<"BaseColor">>, <<"BaseColor", "Normal">>}

\* what a material slot holds: a material, or nothing (slot.material is None)
SlotMaterial(id, use_nodes) == [id |-> id, use_nodes |-> use_nodes, temp |-> FALSE]
NoMaterial == [id |-> 0, use_nodes |-> FALSE, temp |-> FALSE]

\* where the object has a slot that is empty or whose material does not
\* use nodes, next to its material_count slots with node materials
SlotArrangements == {"usable_only", "empty_first", "flat_first", "empty_last"}

SlotsOf(material_count, arrangement) ==
    LET usable == [i \in 1..material_count |-> SlotMaterial(i, TRUE)]
    IN CASE arrangement = "usable_only" -> usable
         [] arrangement = "empty_first" -> <<NoMaterial>> \o usable
         [] arrangement = "flat_first"  -> <<SlotMaterial(material_count + 1, FALSE)>> \o usable
         [] arrangement = "empty_last"  -> Append(usable, NoMaterial)

RECURSIVE usable_slots(_, _)
\* [slot for slot in obj.material_slots if slot.material and slot.material.use_nodes],
\* as the positions of the slots kept, from position i on
usable_slots(slots, i) ==
    IF i > Len(slots) THEN <<>>
    ELSE IF slots[i] # NoMaterial /\ slots[i].use_nodes
         THEN <<i>> \o usable_slots(slots, i + 1)
         ELSE usable_slots(slots, i + 1)

RECURSIVE bake_material_slots(_, _, _)
\* for mat_idx, slot in enumerate(material_slots): the turns of the loop
\* from mat_idx on; a bake that raises is caught inside the turn
bake_material_slots(obj, material_slots, mat_idx) ==
    IF mat_idx >= Len(material_slots) THEN obj
    ELSE LET mat == obj.slots[material_slots[mat_idx + 1]]
             temp_mat == [mat EXCEPT !.temp = TRUE]
             assigned == [slots |-> [obj.slots EXCEPT ![mat_idx + 1] = temp_mat],
                          materials |-> obj.materials \cup {temp_mat}]
             restored == [slots |-> [assigned.slots EXCEPT ![mat_idx + 1] = mat],
                          materials |-> assigned.materials \ {temp_mat}]
         IN bake_material_slots(restored, material_slots, mat_idx + 1)

AtlasInit ==
    /\ nodes = <<>>
    /\ links = <<>>
    /\ consts = DefaultConsts
    /\ probes = <<>>
    /\ closed = NoScope
    /\ analysis = <<>>
    /\ \E material_count \in 1..MaxMaterials, padding \in Paddings,
          atlas_update_uv \in BOOLEAN, has_uv \in BOOLEAN, synced \in BOOLEAN,
          o \in 0..UVSteps, passes \in AtlasPassChoices,
          arrangement \in SlotArrangements :
          LET slots == SlotsOf(material_count, arrangement)
              uvs == [f \in 1..material_count |->
                        [u |-> o, v |-> UVSteps - o, u_one |-> UVSteps, v_one |-> UVSteps]]
          IN /\ (~atlas_update_uv => synced)
             /\ (arrangement # "usable_only" => o = 0 /\ has_uv /\ synced)
             /\ sweep = [pc |-> "atlas_input",
                         material_count |-> material_count,
                         atlas_padding |-> padding,
                         atlas_update_uv |-> atlas_update_uv,
                         bm_synced |-> synced,
                         mesh_uvs |-> uvs,
                         uv_layers |-> IF has_uv THEN <<[name |-> "UVMap", uvs |-> uvs]>>
                                       ELSE <<>>,
                         active |-> IF has_uv THEN "UVMap" ELSE "none",
                         original_uv_name |-> "none",
                         layout |-> <<0, 0>>,
                         cells |-> <<>>,
                         passes |-> passes,
                         slots |-> slots,
                         slots_before |-> slots,
                         materials |-> SeqToSet(slots) \ {NoMaterial},
                         material_slots |-> <<>>,
                         saved |-> {},
                         created |-> FALSE,
                         result |-> "none"]

\* the layout of the material count and the bounds of every material in it
AtlasCells ==
    /\ sweep.pc = "atlas_input"
    /\ LET layout == calculate_atlas_layout(sweep.material_count)
       IN sweep' = [sweep EXCEPT
                      !.pc = "atlas_start",
                      !.layout = layout,
                      !.cells = [i \in 1..sweep.material_count |->
                                   get_atlas_uv_bounds(i - 1, layout[1], layout[2],
                                                       sweep.atlas_padding)]]
    /\ UNCHANGED <<nodes, links, consts, probes, closed, analysis>>

\* MBNL_OT_bake_material_atlas.execute up to the try statement
AtlasExecute ==
    /\ sweep.pc = "atlas_start"
    /\ IF sweep.material_count < 2
          \/ sweep.layout[1] * sweep.layout[2] < sweep.material_count
       THEN sweep' = [sweep EXCEPT !.pc = "atlas_returned", !.result = "CANCELLED"]
       ELSE sweep' = [sweep EXCEPT !.pc = "atlas_uv",
                                   !.material_slots = usable_slots(sweep.slots, 1),
                                   !.original_uv_name = sweep.active]
    /\ UNCHANGED <<nodes, links, consts, probes, closed, analysis>>

\* if self.atlas_update_uv: atlas_uv_name = create_atlas_uv_layer(...)
AtlasUV ==
    /\ sweep.pc = "atlas_uv"
    /\ IF sweep.atlas_update_uv
       THEN LET r == create_atlas_uv_layer(sweep.uv_layers, sweep.active, sweep.mesh_uvs,
                                           sweep.layout, sweep.atlas_padding,
                                           sweep.material_count, sweep.bm_synced)
            IN sweep' = [sweep EXCEPT !.pc = "atlas_passes",
                                      !.uv_layers = r.uv_layers,
                                      !.active = r.active,
                                      !.created = TRUE]
       ELSE sweep' = [sweep EXCEPT !.pc = "atlas_passes"]
    /\ UNCHANGED <<nodes, links, consts, probes, closed, analysis>>

\* one turn of the loop over the passes: the materials are baked, each in
\* its own try statement, and the atlas image is saved; img.save() raising
\* leaves the loop for the except clause of the operator
AtlasPass ==
    /\ sweep.pc = "atlas_passes"
    /\ sweep.passes # <<>>
    /\ LET obj == bake_material_slots([slots |-> sweep.slots,
                                        materials |-> sweep.materials],
                                       sweep.material_slots, 0)
       IN \/ sweep' = [sweep EXCEPT !.passes = Tail(sweep.passes),
                                    !.slots = obj.slots,
                                    !.materials = obj.materials,
                                    !.saved = sweep.saved \cup {Head(sweep.passes)}]
          \/ sweep' = [sweep EXCEPT !.pc = "atlas_finally",
                                    !.slots = obj.slots,
                                    !.materials = obj.materials,
                                    !.result = "CANCELLED"]
    /\ UNCHANGED <<nodes, links, consts, probes, closed, analysis>>

\* return {'FINISHED'}
AtlasFinished ==
    /\ sweep.pc = "atlas_passes"
    /\ sweep.passes = <<>>
    /\ sweep' = [sweep EXCEPT !.pc = "atlas_finally", !.result = "FINISHED"]
    /\ UNCHANGED <<nodes, links, consts, probes, closed, analysis>>

\* finally: if self.atlas_update_uv and original_uv_name:
\*              restore_original_uv_layer(obj, original_uv_name)
AtlasFinally ==
    /\ sweep.pc = "atlas_finally"
    /\ IF sweep.atlas_update_uv /\ sweep.original_uv_name # "none"
       THEN LET r == restore_original_uv_layer(sweep.uv_layers, sweep.active,
                                               sweep.original_uv_name)
            IN sweep' = [sweep EXCEPT !.pc = "atlas_returned",
                                      !.uv_layers = r.uv_layers,
                                      !.active = r.active]
       ELSE sweep' = [sweep EXCEPT !.pc = "atlas_returned"]
    /\ UNCHANGED <<nodes, links, consts, probes, closed, analysis>>

AtlasNext ==
    \/ AtlasCells
    \/ AtlasExecute
    \/ AtlasUV
    \/ AtlasPass
    \/ AtlasFinished
    \/ AtlasFinally

AtlasSpec == AtlasInit /\ [][AtlasNext]_vars

-----------------------------------------------------------------------------
(* Specification PlanSpec: the UDIM tiles execute plans for an object and  *)
(* the file every unit of work of the object is saved to.  A name is a     *)
(* sequence of characters, a path is a string.  Fields of sweep:           *)
(*   udim_tiles   the tile list of execute                                 *)
(*   mat_idx, res_idx, tile, chan   the positions of the four loops        *)
(*   files        the files written by img.save(): the path and the unit   *)

\* c.isalnum(), for the characters of the names below
isalnum(c) == c \in {"C", "u", "b", "e", "M", "a", "t", "1"}

RECURSIVE join(_)
\* "".join(chars)
join(chars) == IF chars = <<>> THEN "" ELSE Head(chars) \o join(Tail(chars))

RECURSIVE rstrip(_)
rstrip(chars) ==
    IF chars # <<>> /\ chars[Len(chars)] = " "
    THEN rstrip(SubSeq(chars, 1, Len(chars) - 1))
    ELSE chars

RECURSIVE lstrip(_)
lstrip(chars) ==
    IF chars # <<>> /\ Head(chars) = " " THEN lstrip(Tail(chars)) ELSE chars

\* safe_obj_name and safe_mat_name of the folder naming; safe_encode_text
\* returns a str that is not empty as it is
safe_name_folders(name, fallback) ==
    LET kept == rstrip(SelectSeq(name, LAMBDA c : isalnum(c) \/ c \in {" ", "-", "_"}))
    IN IF kept = <<>> THEN fallback ELSE join(kept)

\* safe_obj_name and safe_mat_name of the traditional naming
safe_name_flat(name, fallback) ==
    LET kept == rstrip(lstrip(SelectSeq(name, LAMBDA c : isalnum(c) \/ c \in {"_", "-"})))
    IN IF kept = <<>> THEN fallback ELSE join(kept)

\* suffix.lower()
lower(suffix) ==
    CASE suffix = "BaseColor" -> "basecolor"
      [] suffix = "Normal"    -> "normal"
      [] suffix = "Metallic"  -> "metallic"

\* full_path of a channel of a tile of a resolution of a material
full_path(S, mat_name, width, height, udim_tile, suffix) ==
    IF S.organize_folders
    THEN LET res_folder == ToString(width) \o "x" \o ToString(height)
             safe_obj_name == safe_name_folders(S.obj_name, "Object")
             safe_mat_name == safe_name_folders(mat_name, "Material")
             folder_path == "dir/" \o safe_obj_name \o "/" \o safe_mat_name
                              \o "/" \o res_folder
             img_name ==
                 IF S.enable_udim /\ udim_tile # 1001
                 THEN CASE S.udim_naming_mode = "STANDARD" ->
                             safe_mat_name \o "." \o ToString(udim_tile) \o "." \o lower(suffix)
                        [] S.udim_naming_mode = "MARI" ->
                             safe_mat_name \o "_" \o ToString(udim_tile) \o "_" \o lower(suffix)
                        [] S.udim_naming_mode = "MUDBOX" ->
                             safe_mat_name \o "." \o lower(suffix) \o "." \o ToString(udim_tile)
                 ELSE lower(suffix)
         IN folder_path \o "/" \o img_name \o ".png"
    ELSE LET safe_obj_name == safe_name_flat(S.obj_name, "Object")
             safe_mat_name == safe_name_flat(mat_name, "Material")
             stem == safe_obj_name \o "_" \o safe_mat_name \o "_" \o lower(suffix)
             img_name ==
                 IF Len(S.resolutions) > 1
                 THEN IF width = height
                      THEN stem \o "_" \o ToString(width)
                      ELSE stem \o "_" \o ToString(width) \o "x" \o ToString(height)
                 ELSE stem
         IN "dir/" \o img_name \o ".png"

\* udim_tiles of execute
plan_udim_tiles(S) ==
    IF S.enable_udim
    THEN IF S.udim_auto_detect
         THEN LET detected == detect_udim_tiles(S.uvs)
              IN IF detected # <<>> THEN detected ELSE <<1001>>
         ELSE [i \in 1..(S.udim_range_end + 1 - S.udim_range_start) |->
                 S.udim_range_start + i - 1]
    ELSE <<1001>>

\* a mesh none of whose loops is in a tile of 1001..1100
MeshOutside == << <<5, 1005>> >>

\* enable_udim, udim_auto_detect, the mesh, udim_range_start, udim_range_end
UdimPlanChoices ==
    {[enable_udim |-> FALSE, udim_auto_detect |-> TRUE, uvs |-> MeshTwoTiles,
      udim_range_start |-> 1001, udim_range_end |-> 1010]}
    \cup {[enable_udim |-> TRUE, udim_auto_detect |-> TRUE, uvs |-> m,
           udim_range_start |-> 1001, udim_range_end |-> 1010] :
            m \in {MeshTwoTiles, MeshOneTile, MeshOutside}}
    \cup {[enable_udim |-> TRUE, udim_auto_detect |-> FALSE, uvs |-> MeshTwoTiles,
           udim_range_start |-> r[1], udim_range_end |-> r[2]] :
            r \in {<<1001, 1001>>, <<1001, 1002>>, <<1002, 1003>>, <<1003, 1002>>}}

\* the names of the node materials in the object's slots
MaterialNameChoices ==
    {<< <<"M", "a", "t">> >>,
     << <<"M", "a", "t">>, <<"M", "a", "t", "1">> >>,
     << <<"M", "a", "t", ".", "1">>, <<"M", "a", "t", "1">> >>}

PlanInit ==
    /\ nodes = <<>>
    /\ links = <<>>
    /\ consts = DefaultConsts
    /\ probes = <<>>
    /\ closed = NoScope
    /\ analysis = <<>>
    /\ \E u \in UdimPlanChoices, organize_folders \in BOOLEAN,
          udim_naming_mode \in {"STANDARD", "MARI", "MUDBOX"},
          rs \in ResolutionChoices, ms \in MaterialNameChoices :
          sweep = [pc |-> "plan",
                   enable_udim |-> u.enable_udim,
                   udim_auto_detect |-> u.udim_auto_detect,
                   udim_range_start |-> u.udim_range_start,
                   udim_range_end |-> u.udim_range_end,
                   uvs |-> u.uvs,
                   organize_folders |-> organize_folders,
                   udim_naming_mode |-> udim_naming_mode,
                   obj_name |-> <<"C", "u", "b", "e">>,
                   materials |-> ms,
                   resolutions |-> rs,
                   suffixes |-> <<"BaseColor", "Normal">>,
                   udim_tiles |-> <<>>,
                   mat_idx |-> 0, res_idx |-> 0, tile |-> 0, chan |-> 0,
                   files |-> {}]

\* udim_tiles = [] ... udim_tiles = [1001]
PlanTiles ==
    /\ sweep.pc = "plan"
    /\ sweep' = [sweep EXCEPT !.pc = "plan_material",
                              !.udim_tiles = plan_udim_tiles(sweep)]
    /\ UNCHANGED <<nodes, links, consts, probes, closed, analysis>>

\* for slot in material_slots:
PlanMaterial ==
    /\ sweep.pc = "plan_material"
    /\ IF sweep.mat_idx < Len(sweep.materials)
       THEN sweep' = [sweep EXCEPT !.pc = "plan_resolution",
                                   !.mat_idx = @ + 1, !.res_idx = 0]
       ELSE sweep' = [sweep EXCEPT !.pc = "plan_done"]
    /\ UNCHANGED <<nodes, links, consts, probes, closed, analysis>>

\* for res_idx, (width, height) in enumerate(resolutions):
PlanResolution ==
    /\ sweep.pc = "plan_resolution"
    /\ IF sweep.res_idx < Len(sweep.resolutions)
       THEN sweep' = [sweep EXCEPT !.pc = "plan_tile", !.res_idx = @ + 1, !.tile = 0]
       ELSE sweep' = [sweep EXCEPT !.pc = "plan_material"]
    /\ UNCHANGED <<nodes, links, consts, probes, closed, analysis>>

\* for udim_tile in udim_tiles:
PlanTile ==
    /\ sweep.pc = "plan_tile"
    /\ IF sweep.tile < Len(sweep.udim_tiles)
       THEN sweep' = [sweep EXCEPT !.pc = "plan_channel", !.tile = @ + 1, !.chan = 0]
       ELSE sweep' = [sweep EXCEPT !.pc = "plan_resolution"]
    /\ UNCHANGED <<nodes, links, consts, probes, closed, analysis>>

\* for suffix, btype, pfilter, alpha, emission_input in passes: the file
\* name of the channel and img.save()
PlanChannel ==
    /\ sweep.pc = "plan_channel"
    /\ IF sweep.chan < Len(sweep.suffixes)
       THEN LET res == sweep.resolutions[sweep.res_idx]
                udim_tile == sweep.udim_tiles[sweep.tile]
                suffix == sweep.suffixes[sweep.chan + 1]
                path == full_path(sweep, sweep.materials[sweep.mat_idx],
                                  res[1], res[2], udim_tile, suffix)
            IN sweep' = [sweep EXCEPT
                           !.chan = @ + 1,
                           !.files = @ \cup {[path |-> path,
                                              unit |-> <<sweep.mat_idx, res,
                                                         udim_tile, suffix>>]}]
       ELSE sweep' = [sweep EXCEPT !.pc = "plan_tile"]
    /\ UNCHANGED <<nodes, links, consts, probes, closed, analysis>>

PlanNext ==
    \/ PlanTiles
    \/ PlanMaterial
    \/ PlanResolution
    \/ PlanTile
    \/ PlanChannel

PlanSpec == PlanInit /\ [][PlanNext]_vars

-----------------------------------------------------------------------------
(* Claims about the probe scopes (ProbeSpec) *)

Exited(kind) == probes = <<>> /\ closed.kind = kind

\* C1: after a temporary_emission_surface scope has exited, the node set
\* and the link set of the tree are the ones from before it was entered,
\* whatever the producer, the labels of the tree's own nodes and the
\* socket that was wired, on the return and on the raise path.
C1_SurfaceRoundTrip ==
    Exited("surface") => NodeSet = PreNodeSet /\ LinkSet = PreLinkSet

\* C2: after a temporary_emission_input scope has exited, the link set of
\* the tree is the one from before it was entered, fan-out of the socket
\* that drives Surface included, on the return and on the raise path.
C2_InputRoundTrip ==
    Exited("input") => LinkSet = PreLinkSet

\* C3: after a temporary_principled_only_surface or a
\* temporary_custom_shader_only_surface scope has exited, the node set and
\* the link set are the ones from before it was entered: when the body
\* returned, when it raised, and when the named node had no output to
\* connect.
C3_RestrictedRoundTrip ==
    (Exited("principled_only") \/ Exited("custom_only"))
        => NodeSet = PreNodeSet /\ LinkSet = PreLinkSet

\* C3 witness: a custom-only scope on a tree whose Surface input was
\* linked yielded None because the node group has no output, its body
\* raised, and the scope has exited
C3_Witness ==
    /\ Exited("custom_only")
    /\ closed.orig # <<>>
    /\ closed.emit # NoNode
    /\ ~closed.yielded
    /\ closed.body = "raised"

-----------------------------------------------------------------------------
(* Claims about analyze_material (ClassifySpec) *)

Calls == {analysis[i] : i \in DOMAIN analysis}

NoSurfaceLink(m) ==
    \/ \A n \in DOMAIN m.nodes : m.nodes[n].bl_idname # OutputMaterial
    \/ \A l \in SeqToSet(m.links) :
          ~(m.nodes[l.tn].bl_idname = OutputMaterial /\ l.ts = "Surface")

HasKind(m, kinds) == \E n \in DOMAIN m.nodes : m.nodes[n].bl_idname \in kinds

\* C8 as claimed: without a sink, or with an unlinked Surface input, the
\* material type is 'unknown' whatever else the tree holds.
C8_NoSinkUnknown ==
    \A e \in Calls : NoSurfaceLink(e.before) => e.result.material_type = "unknown"

\* C8 amended: without a sink, or with an unlinked Surface input, neither
\* connection flag is set, and the material type is 'unknown' exactly when
\* the tree holds no Principled BSDF and no shader node.
C8_NoSinkUnknownIffNoShader ==
    \A e \in Calls : NoSurfaceLink(e.before) =>
        /\ ~e.result.principled_connected_to_output
        /\ ~e.result.custom_connected_to_output
        /\ e.result.material_type = "unknown"
              <=> ~HasKind(e.before, {BsdfPrincipled} \cup shader_types)

\* C8 witness: a tree with a sink whose Surface input is unlinked and with
\* an image texture, but without any shader, was classified 'unknown'
C8_Witness ==
    \E e \in Calls :
        /\ NoSurfaceLink(e.before)
        /\ HasKind(e.before, {OutputMaterial})
        /\ HasKind(e.before, {TexImage})
        /\ e.result.material_type = "unknown"

NineTypes ==
    {"unknown", "default", "textured", "procedural", "mixed", "custom_shader",
     "principled_with_custom", "custom_with_principled", "mixed_shader_network"}

PlainPrincipled(m) ==
    /\ ~HasKind(m, shader_types)
    /\ \E l \in SeqToSet(m.links) :
          /\ m.nodes[l.fn].bl_idname = BsdfPrincipled
          /\ m.nodes[l.tn].bl_idname = OutputMaterial /\ l.ts = "Surface"

InputLinked(m, i) ==
    \E l \in SeqToSet(m.links) : m.nodes[l.tn].bl_idname = BsdfPrincipled /\ l.ts = i

\* an image-sample node feeds an input of the Principled BSDF
ImageFeeds(m) ==
    \E l \in SeqToSet(m.links) :
        m.nodes[l.fn].bl_idname = TexImage /\ m.nodes[l.tn].bl_idname = BsdfPrincipled

\* an image-sample node that holds an image exists, linked or not
ImageExists(m) ==
    \E n \in DOMAIN m.nodes : m.nodes[n].bl_idname = TexImage /\ m.nodes[n].image

\* an unlinked input among S holds a constant that is not its default
NonDefault(m, S) ==
    \E i \in S : ~InputLinked(m, i) /\
        IF i = "Base Color"
        THEN \E k \in 1..3 : m.consts[i][k] >= 810 \/ m.consts[i][k] =< 790
        ELSE LET d == DefaultConsts[i]
             IN m.consts[i] > d + 10 \/ m.consts[i] < d - 10

\* C10 as claimed: textured or mixed only if an image sample feeds the
\* Principled BSDF, mixed only with a non-default constant, procedural when
\* no image sample feeds it but an input is non-default or linked, default
\* otherwise.
C10_SubclassByFeedingImages ==
    \A e \in Calls : PlainPrincipled(e.before) =>
        LET t == e.result.material_type
            m == e.before
            varied == NonDefault(m, PrincipledInputs) \/ \E i \in PrincipledInputs : InputLinked(m, i)
        IN /\ t \in {"textured", "mixed"} => ImageFeeds(m)
           /\ t = "mixed" => NonDefault(m, PrincipledInputs)
           /\ (~ImageFeeds(m) /\ varied) => t = "procedural"
           /\ (~ImageFeeds(m) /\ ~varied) => t = "default"

\* C10 amended: textured or mixed exactly when the tree holds an image
\* sample with an image, linked to the Principled BSDF or not; mixed when
\* in addition an unlinked Base Color, Metallic or Roughness is not at its
\* default; procedural when there is no such image but one of those three
\* is not at its default or some input is linked; default otherwise.
C10_SubclassByImagesAnywhere ==
    \A e \in Calls : PlainPrincipled(e.before) =>
        LET m == e.before
            pure == NonDefault(m, {"Base Color", "Metallic", "Roughness"})
            linked == \E i \in PrincipledInputs : InputLinked(m, i)
        IN e.result.material_type =
             CASE ImageExists(m) /\ pure -> "mixed"
               [] ImageExists(m) /\ ~pure -> "textured"
               [] ~ImageExists(m) /\ (pure \/ linked) -> "procedural"
               [] OTHER -> "default"

\* C10 witness: a tree sink <- Principled BSDF with an image texture that
\* holds an image and is linked to nothing was classified 'textured'
C10_Witness ==
    \E e \in Calls :
        /\ PlainPrincipled(e.before)
        /\ ImageExists(e.before)
        /\ ~ImageFeeds(e.before)
        /\ e.result.material_type = "textured"

-----------------------------------------------------------------------------
(* Claims about the sweep (SweepSpec) *)

Suffixes == {sweep.passes[c].suffix : c \in DOMAIN sweep.passes}
Requested == {sweep.resolutions[r] : r \in DOMAIN sweep.resolutions}

\* C4: when the engine never raises, a finished sweep over R resolutions,
\* one tile and C channels has saved exactly R*C files, one for every pair
\* of a resolution and a channel, and all_baked_images holds every channel
\* under every resolution.
C4_EveryResolutionPersisted ==
    (sweep.pc = "done" /\ sweep.engine_raised = 0 /\ Len(sweep.udim_tiles) = 1) =>
        /\ Cardinality(sweep.saved) = Len(sweep.resolutions) * Len(sweep.passes)
        /\ sweep.saved = {<<res, sweep.udim_tiles[1], sfx>> :
                              res \in Requested, sfx \in Suffixes}
        /\ sweep.all_baked_images = Requested \X Suffixes

\* C5: with replace_nodes set and an engine that never raises, the rebuild
\* block runs at most once, and by the end of the sweep it has run once, with
\* the images of every channel at the primary resolution.
C5_RebuildOnceFromPrimary ==
    (sweep.pc # "material" /\ sweep.replace_nodes /\ sweep.engine_raised = 0) =>
        /\ Len(sweep.rebuilds) =< 1
        /\ sweep.pc = "done" =>
              /\ Len(sweep.rebuilds) = 1
              /\ sweep.rebuilds[1].res = primary_resolution(sweep.resolutions)
              /\ sweep.rebuilds[1].images = Suffixes

\* C6: a channel in which the engine raised is neither saved nor recorded,
\* its probe leaves the tree with the nodes it had and with Surface linked
\* as it was, and by the end of the sweep every channel of every tile of
\* every resolution has been processed.
C6_FailureIsolated ==
    /\ \A f \in sweep.failed :
          /\ f.restored
          /\ f.key \notin sweep.saved
          /\ (Len(sweep.udim_tiles) = 1 => <<f.key[1], f.key[3]>> \notin sweep.all_baked_images)
    /\ (sweep.pc = "done" /\ sweep.failed # {}) =>
          sweep.processed = (DOMAIN sweep.resolutions) \X (DOMAIN sweep.udim_tiles)
                                \X (DOMAIN sweep.passes)

-----------------------------------------------------------------------------
(* Claims about the mixed shader networks (ClassifySpec) *)

\* the Mix/Add Shader that drives the sink's Surface input, or NoNode
Combiner(m) ==
    LET drv == {l.fn : l \in {x \in SeqToSet(m.links) :
                    m.nodes[x.tn].bl_idname = OutputMaterial /\ x.ts = "Surface"}}
    IN IF \E n \in drv : m.nodes[n].bl_idname \in mix_types
       THEN CHOOSE n \in drv : m.nodes[n].bl_idname \in mix_types
       ELSE NoNode

\* a node of one of the kinds is linked to an input of the node n
FedBy(m, n, kinds) ==
    \E l \in SeqToSet(m.links) : l.tn = n /\ m.nodes[l.fn].bl_idname \in kinds

\* C11: when a Mix/Add Shader drives the sink, the material type is
\* 'mixed_shader_network' if a Principled BSDF and a simple shader or group
\* both feed it, 'principled_with_custom' if a Principled BSDF feeds it and
\* no simple shader or group does, and 'custom_with_principled' if a simple
\* shader or group feeds it and the Principled BSDF exists but does not.
C11_CombinerClassification ==
    \A e \in Calls : Combiner(e.before) # NoNode =>
        LET m == e.before
            p == FedBy(m, Combiner(m), {BsdfPrincipled})
            c == FedBy(m, Combiner(m), simple_shader_types)
            t == e.result.material_type
        IN /\ (p /\ c) => t = "mixed_shader_network"
           /\ (p /\ ~c) => t = "principled_with_custom"
           /\ (~p /\ c /\ HasKind(m, {BsdfPrincipled})) => t = "custom_with_principled"

\* C11 witness: a Mix Shader fed by a node group only drives the sink, a
\* Principled BSDF exists beside it, and the call returned
\* 'custom_with_principled'
C11_Witness ==
    \E e \in Calls :
        /\ Combiner(e.before) # NoNode
        /\ FedBy(e.before, Combiner(e.before), {NodeGroup})
        /\ ~FedBy(e.before, Combiner(e.before), {BsdfPrincipled})
        /\ HasKind(e.before, {BsdfPrincipled})
        /\ e.result.material_type = "custom_with_principled"

-----------------------------------------------------------------------------
(* Claims about the channels of one tile (ChannelSpec) *)

\* the material as analyze_material saw it
Analyzed == analysis[1].before

\* the passes of the channel suffix that have reached the bake
ProcessedPasses(suffix) == {id \in sweep.processed : sweep.passes[id[3]].suffix = suffix}

\* how many times the engine was invoked in the pass id
Invocations(id) == Cardinality({i \in DOMAIN sweep.engine_calls : sweep.engine_calls[i] = id})

\* sink <- combiner <- {Principled BSDF, Emission}, PRINCIPLED_ONLY, and
\* the tree not rebuilt yet
C12_Case ==
    /\ sweep.pc \notin {"material", "crashed"}
    /\ sweep.rebuilds = <<>>
    /\ sweep.mixed_shader_strategy = "PRINCIPLED_ONLY"
    /\ analysis[1].result.material_type = "mixed_shader_network"
    /\ Combiner(Analyzed) # NoNode
    /\ FedBy(Analyzed, Combiner(Analyzed), {BsdfPrincipled})
    /\ FedBy(Analyzed, Combiner(Analyzed), {Emission})

\* the links of the tree wired into the given input socket of a node of kind
\* OutputMaterial (by kind) or of the named node
IntoSurface(L) ==
    {l \in SeqToSet(L) : l.tn \in DOMAIN Analyzed.nodes /\ l.ts = "Surface"
                         /\ Analyzed.nodes[l.tn].bl_idname = OutputMaterial}

\* C12: on sink <- combiner <- {Principled BSDF, Emission} with strategy
\* PRINCIPLED_ONLY, a CustomShader pass invokes the engine exactly once, and
\* at that moment Surface holds one link, from a node the probe created,
\* whose Color input holds one link, from the Principled BSDF; the combiner
\* is not linked to the sink.
C12_PrincipledOnlyWiring ==
    C12_Case =>
        /\ \A id \in ProcessedPasses("CustomShader") : Invocations(id) = 1
        /\ (sweep.engine_calls # <<>>
            /\ sweep.passes[sweep.engine_calls[Len(sweep.engine_calls)][3]].suffix
                  = "CustomShader") =>
              /\ Cardinality(IntoSurface(sweep.wired)) = 1
              /\ \A s \in IntoSurface(sweep.wired) :
                    /\ s.fn \notin DOMAIN Analyzed.nodes
                    /\ s.fs = "Emission"
                    /\ LET color == {l \in SeqToSet(sweep.wired) :
                                        l.tn = s.fn /\ l.ts = "Color"}
                       IN /\ Cardinality(color) = 1
                          /\ \A l \in color :
                                /\ l.fn \in DOMAIN Analyzed.nodes
                                /\ Analyzed.nodes[l.fn].bl_idname = BsdfPrincipled

\* C12 witness: in that case a CustomShader pass has just invoked the engine
C12_Witness ==
    /\ C12_Case
    /\ sweep.engine_calls # <<>>
    /\ sweep.passes[sweep.engine_calls[Len(sweep.engine_calls)][3]].suffix = "CustomShader"
    /\ ProcessedPasses("CustomShader") # {}

\* the file a pass writes
PassKey(id) ==
    <<sweep.resolutions[id[1]], sweep.udim_tiles[id[2]], sweep.passes[id[3]].suffix>>

\* a Principled BSDF material of type 'procedural' without image textures,
\* Metallic 0.0, Roughness 0.5 and Specular 0.5 all unlinked, not rebuilt
C13_Case ==
    /\ sweep.pc \notin {"material", "crashed"}
    /\ sweep.rebuilds = <<>>
    /\ sweep.engine_raised = 0
    /\ analysis[1].result.material_type = "procedural"
    /\ ~ImageExists(Analyzed)
    /\ Analyzed.consts["Metallic"] = 0
    /\ Analyzed.consts["Roughness"] = 500
    /\ Analyzed.consts["Specular"] = 500
    /\ \A i \in {"Metallic", "Roughness", "Specular"} : ~InputLinked(Analyzed, i)

\* C13 as claimed: Metallic and Roughness get no engine call and no file;
\* Specular gets a file without an engine call.
C13_SkipAndFillConstant ==
    C13_Case =>
        /\ \A id \in ProcessedPasses("Metallic") \cup ProcessedPasses("Roughness") :
              Invocations(id) = 0 /\ PassKey(id) \notin sweep.saved
        /\ \A id \in ProcessedPasses("Specular") :
              Invocations(id) = 0 /\ PassKey(id) \in sweep.saved

\* C13 amended: Metallic and Roughness get no engine call, and a file of the
\* constant is written and recorded for each; Specular is baked by one engine
\* call and its file is written and recorded.
C13_DefaultsFilledOthersBaked ==
    C13_Case =>
        /\ \A id \in ProcessedPasses("Metallic") \cup ProcessedPasses("Roughness") :
              /\ Invocations(id) = 0
              /\ PassKey(id) \in sweep.saved
              /\ <<PassKey(id)[1], PassKey(id)[3]>> \in sweep.all_baked_images
        /\ \A id \in ProcessedPasses("Specular") :
              /\ Invocations(id) = 1
              /\ PassKey(id) \in sweep.saved
              /\ <<PassKey(id)[1], PassKey(id)[3]>> \in sweep.all_baked_images

\* C13 witness: in that case the three passes of the first resolution have
\* been processed
C13_Witness ==
    /\ C13_Case
    /\ \A sfx \in {"Metallic", "Roughness", "Specular"} : ProcessedPasses(sfx) # {}

-----------------------------------------------------------------------------
(* Claims about the UDIM tiles (SweepSpec) *)

\* the loops whose coordinates lay in the tile when the operator started
LoopsInTile(udim_number) ==
    {i \in DOMAIN sweep.mesh : in_tile(sweep.mesh[i], get_udim_tile_bounds(udim_number))}

\* C14: in UDIM mode, while the channels of a tile other than 1001 are
\* processed, the loops of that tile have their coordinates in the 0-1
\* window.
C14_NormalizedBeforeChannels ==
    (sweep.pc = "channel" /\ sweep.enable_udim /\ UdimTile # 1001) =>
        \A i \in LoopsInTile(UdimTile) :
            \A k \in 1..2 : 0 =< sweep.uvs[i][k] /\ sweep.uvs[i][k] < 10

InsideTile == sweep.pc \in {"channel", "tile_end"}

\* C15: outside the processing of a tile every loop has the coordinates it
\* had when the operator started, also after a tile whose channel loop was
\* ended by an exception; while a tile is processed the loops outside its
\* window keep their coordinates and the loops inside it have theirs, or
\* theirs less the tile's column and row.
C15_UVsRestoredAfterTile ==
    sweep.pc # "crashed" =>
        /\ ~InsideTile => sweep.uvs = sweep.mesh
        /\ InsideTile =>
              LET b == get_udim_tile_bounds(UdimTile)
              IN \A i \in DOMAIN sweep.mesh :
                    IF i \in LoopsInTile(UdimTile)
                    THEN sweep.uvs[i] \in
                            {sweep.mesh[i],
                             <<sweep.mesh[i][1] - 10 * b.tile_u,
                               sweep.mesh[i][2] - 10 * b.tile_v>>}
                    ELSE sweep.uvs[i] = sweep.mesh[i]

\* C15 witness: the tile 1002 was renormalized in the object's mesh, its
\* channel loop was ended by an exception, and the tile loop is over
C15_Witness ==
    /\ sweep.pc = "rebuild"
    /\ sweep.enable_udim /\ sweep.bm_synced
    /\ UdimTile = 1002
    /\ sweep.original_uvs # <<>>
    /\ <<sweep.res_idx, sweep.tile>> \in sweep.aborted
    /\ sweep.uvs = sweep.mesh

-----------------------------------------------------------------------------
(* Claims about the UDIM numbering (UdimSpec) *)

\* C16: for a tile number in 1001..1100 get_udim_tile_bounds gives a column
\* and a row in 0..9 with 1001 + column + 10 * row equal to the number; for
\* a column and a row in 0..9 that sum is a number in 1001..1100 of which
\* get_udim_tile_bounds gives the column and the row back.
C16_UdimRoundTrip ==
    \A e \in Calls :
        /\ e.bounds.tile_u \in 0..9
        /\ e.bounds.tile_v \in 0..9
        /\ e.fn = "get_udim_tile_bounds" =>
              1001 + e.bounds.tile_u + 10 * e.bounds.tile_v = e.arg
        /\ e.fn = "detect_udim_tiles" =>
              /\ e.udim_number = 1001 + e.arg[1] + 10 * e.arg[2]
              /\ e.udim_number \in 1001..1100
              /\ <<e.bounds.tile_u, e.bounds.tile_v>> = e.arg

\* C16 witness: the last tile, 1100, was taken apart and column 9 of row 9
\* was put together
C16_Witness ==
    /\ \E e \in Calls : e.fn = "get_udim_tile_bounds" /\ e.arg = 1100
    /\ \E e \in Calls : e.fn = "detect_udim_tiles" /\ e.arg = <<9, 9>>

-----------------------------------------------------------------------------
(* Claims about the material atlas (AtlasSpec) *)

CellsComputed == sweep.pc \in {"atlas_start", "atlas_uv", "atlas_passes",
                               "atlas_finally", "atlas_returned"}

Overlap(a, b) ==
    /\ a.u_min < b.u_max /\ b.u_min < a.u_max
    /\ a.v_min < b.v_max /\ b.v_min < a.v_max

\* C17: for a material count in 1..MaxMaterials laid out by
\* calculate_atlas_layout and a padding below 0.1, the rectangles that
\* get_atlas_uv_bounds gives to the materials have u_min < u_max and
\* v_min < v_max, lie within [0,1] x [0,1] and do not overlap one another.
C17_AtlasCellsDisjoint ==
    CellsComputed =>
        /\ Len(sweep.cells) = sweep.material_count
        /\ \A i \in DOMAIN sweep.cells :
              LET c == sweep.cells[i]
              IN /\ c.u_min < c.u_max /\ c.v_min < c.v_max
                 /\ 0 <= c.u_min /\ c.u_max <= c.u_one
                 /\ 0 <= c.v_min /\ c.v_max <= c.v_one
        /\ \A i, j \in DOMAIN sweep.cells :
              i # j => ~Overlap(sweep.cells[i], sweep.cells[j])

\* C17 witness: the cells of MaxMaterials materials with the widest padding
C17_Witness ==
    /\ CellsComputed
    /\ Len(sweep.cells) = MaxMaterials
    /\ \A p \in Paddings : p <= sweep.atlas_padding

InCell(uv, b) ==
    /\ b.u_min * uv.u_one <= uv.u * b.u_one /\ uv.u * b.u_one <= b.u_max * uv.u_one
    /\ b.v_min * uv.v_one <= uv.v * b.v_one /\ uv.v * b.v_one <= b.v_max * uv.v_one

\* C18: when the atlas operator has returned from a bake with UV update,
\* finished or cancelled, the active UV layer of the object is the atlas
\* layer and the coordinates of every face lie in the rectangle of its
\* material.
C18_RemapIsFinal ==
    (sweep.pc = "atlas_returned" /\ sweep.created) =>
        /\ sweep.active = "AtlasUV"
        /\ "AtlasUV" \in layer_names(sweep.uv_layers)
        /\ \A f \in 1..sweep.material_count :
              InCell(layer_named(sweep.uv_layers, "AtlasUV").uvs[f], sweep.cells[f])

-----------------------------------------------------------------------------
(* Claims about failures around a probe (ChannelSpec) *)

\* C19: when nt.links.new of an original link raises in the finally block of
\* a probe, the next channel is processed and the material is not rebuilt in
\* that turn of the resolution loop or a later one, replace_nodes set or not.
C19_RelinkFailureBlocksRebuild ==
    \A id \in sweep.relink_failed :
        /\ (sweep.pc = "done" /\ sweep.aborted = {}) =>
              \A c \in DOMAIN sweep.passes : <<id[1], id[2], c>> \in sweep.processed
        /\ \A i \in DOMAIN sweep.rebuilds : sweep.rebuilds[i].at < id[1]

\* C20: a CustomShader pass whose probes all yield nothing does not invoke
\* the engine, saves no file and leaves no entry in all_baked_images, and
\* the other passes of the tile are processed.
C20_UnwiredChannelSkipped ==
    sweep.rebuilds = <<>> =>
        \A id \in ProcessedPasses("CustomShader") :
            (id \notin sweep.relink_failed /\ Invocations(id) = 0) =>
                /\ PassKey(id) \notin sweep.saved
                /\ <<sweep.resolutions[id[1]], "CustomShader">> \notin sweep.all_baked_images
                /\ (sweep.pc = "tile_end" /\ sweep.res_idx = id[1] /\ sweep.tile = id[2]) =>
                      \A c \in DOMAIN sweep.passes : <<id[1], id[2], c>> \in sweep.processed

-----------------------------------------------------------------------------
(* Claims about the rebuild of the material (SweepSpec) *)

LastRebuild == sweep.rebuilds[Len(sweep.rebuilds)]

\* the rebuild block of the current turn of the resolution loop has run and
\* a statement of its try block raised
RebuildRaised ==
    /\ sweep.pc \in {"cleanup", "resolution", "done"}
    /\ sweep.rebuilds # <<>>
    /\ LastRebuild.at = sweep.res_idx
    /\ LastRebuild.raised

RebuildDone ==
    /\ sweep.pc = "cleanup"
    /\ sweep.rebuilds # <<>>
    /\ LastRebuild.at = sweep.res_idx
    /\ ~LastRebuild.raised

\* the image of channel key is held by an Image Texture node that is linked
\* to the Principled BSDF or the Material Output, directly or through a
\* Normal Map node
WiredImage(key) ==
    \E t \in DOMAIN nodes :
        /\ nodes[t].bl_idname = TexImage /\ nodes[t].image /\ nodes[t].label = key
        /\ \E l \in SeqToSet(links) :
              /\ l.fn = t
              /\ \/ nodes[l.tn].bl_idname \in {BsdfPrincipled, OutputMaterial}
                 \/ /\ nodes[l.tn].bl_idname = "ShaderNodeNormalMap"
                    /\ \E m \in SeqToSet(links) :
                          m.fn = l.tn /\ nodes[m.tn].bl_idname = BsdfPrincipled

\* C22: after a rebuild that did not raise, every channel recorded for the
\* primary resolution, CustomShader included, has its image in an Image
\* Texture node wired to the Principled BSDF or the Material Output.
C22_EveryImageWired ==
    RebuildDone => \A key \in LastRebuild.images : WiredImage(key)

-----------------------------------------------------------------------------
(* More claims about the probe scopes (ProbeSpec) *)

\* C23: after a temporary_emission_input scope has exited, on the return and
\* on the raise path, the node set of the tree is the one from before it
\* was entered: the Emission node and every RGB node the scope created are
\* gone, the RGB node created before the except branch took the declared
\* default included.
C23_InputProbeNodesRemoved ==
    Exited("input") => NodeSet = PreNodeSet

-----------------------------------------------------------------------------
(* Claims about the order of the work (ChannelSpec, SweepSpec) *)

\* the pass of the engine call made last
LastCall == sweep.passes[sweep.engine_calls[Len(sweep.engine_calls)][3]]

\* C24: a pass baked through temporary_emission_input invokes the engine
\* only while Surface of the Material Output is driven by the Emission node
\* the scope created; when the scope yields None (no Material Output, no
\* Principled BSDF or no such input) the engine is not invoked for the pass.
C24_EngineOnlyWhileWired ==
    (sweep.pc \notin {"material", "crashed"} /\ sweep.rebuilds = <<>>
     /\ sweep.engine_calls # <<>> /\ LastCall.emission_input # NoNode) =>
        /\ IntoSurface(sweep.wired) # {}
        /\ \A s \in IntoSurface(sweep.wired) :
              s.fn \notin DOMAIN Analyzed.nodes /\ s.fs = "Emission"

\* the unit <<resolution, tile, channel>> a comes before the unit b
Before(a, b) ==
    \/ a[1] < b[1]
    \/ a[1] = b[1] /\ a[2] < b[2]
    \/ a[1] = b[1] /\ a[2] = b[2] /\ a[3] < b[3]

\* the Emission nodes of the tree that a probe scope created
ProbeEmitters(N) ==
    {n \in DOMAIN N : N[n].bl_idname = Emission /\ n \notin DOMAIN Analyzed.nodes}

NodeProbeKinds == {"surface", "principled_only", "custom_only"}

\* the colour input of the scope's emission node has an incoming link
ColourDriven(rec) ==
    rec.emit # NoNode /\ InLinks(links, rec.emit, "Color") # <<>>

\* C26: while a full-surface, principled-only or custom-shader-only scope
\* is open on a tree that has a Material Output, the scope has yielded its
\* emission node and that node's Color input is driven (by a named output,
\* the first output, or a constant-colour node); it never yields None.
C26_FallbackChainEndsWired ==
    (probes # <<>> /\ Top.kind \in NodeProbeKinds
        /\ FirstOfKind(Top.pre.nodes, OutputMaterial) # NoNode)
    => Top.yielded /\ ColourDriven(Top)

\* C27: after the atlas operator has returned, finished or cancelled,
\* every material slot of the object holds the material it held before
\* the operator ran and no temporary copy is left among the materials,
\* wherever an empty slot or a slot without a node material stands.
C27_SlotsRestored ==
    sweep.pc = "atlas_returned"
    => /\ sweep.slots = sweep.slots_before
       /\ \A m \in sweep.materials : ~m.temp

\* C28: within one sweep no two distinct units of work (material,
\* resolution, UDIM tile, channel of the object) are saved to the same file
\* path, with the folder naming and with the traditional naming, for every
\* UDIM naming mode: no file is written a second time by another unit.
C28_DistinctPaths ==
    sweep.pc \in {"plan_material", "plan_resolution", "plan_tile", "plan_channel",
                  "plan_done"}
    => \A f, g \in sweep.files : f.path = g.path => f.unit = g.unit

\* C29: when the sweep of an object has ended, the tile list is not empty
\* and every material has had, for every resolution, at least one unit of
\* work, whether UDIM is off, the tiles are detected or a range is given.
C29_SomeTilePerResolution ==
    sweep.pc = "plan_done"
    => /\ sweep.udim_tiles # <<>>
       /\ \A m \in DOMAIN sweep.materials, r \in DOMAIN sweep.resolutions :
             \E f \in sweep.files :
                f.unit[1] = m /\ f.unit[2] = sweep.resolutions[r]

\* C30: the list detect_udim_tiles returns is sorted without duplicates,
\* its ids are in 1001..1100, and for every id the mesh has a UV coordinate
\* inside the window of get_udim_tile_bounds(id), also for negative
\* coordinates and for u of 10 or more.
C30_DetectedTilesSound ==
    analysis[1].returned
    => LET tiles == analysis[1].tiles
           uvs == analysis[1].arg
       IN /\ \A j \in 1..(Len(tiles) - 1) : tiles[j] < tiles[j + 1]
          /\ \A j \in DOMAIN tiles :
                /\ 1001 =< tiles[j] /\ tiles[j] =< 1100
                /\ \E k \in DOMAIN uvs :
                      in_tile(uvs[k], get_udim_tile_bounds(tiles[j]))

====
